---------------------------- MODULE Spec2Model ----------------------------
(***************************************************************************)
(* Model of the solar_eclipse integration                                  *)
(* (custom_components/solar_eclipse): the catalog fetcher with retry and   *)
(* backoff, the catalog parser (row scan, pattern match, dedup and sort),  *)
(* the 24h cache and the three-tier fallback chain of                      *)
(* EclipseCoordinator._async_update_data, and the setup status sensor.     *)
(*                                                                         *)
(* Text is a sequence of one-character strings, so that the regular        *)
(* expressions of the parser are modelled by what they match.  Instants    *)
(* are whole seconds since 2000-01-01T00:00:00Z.  Python's None is the     *)
(* empty tuple <<>> and a present value v is <<v>> wherever a field is     *)
(* Optional.                                                               *)
(***************************************************************************)
EXTENDS Integers, Sequences, FiniteSets, TLC

(***************************************************************************)
(* Characters and text                                                     *)
(***************************************************************************)
DigitChars == <<"0", "1", "2", "3", "4", "5", "6", "7", "8", "9">>

LowerChars == <<"a", "b", "c", "d", "e", "f", "g", "h", "i", "j", "k", "l", "m",
                "n", "o", "p", "q", "r", "s", "t", "u", "v", "w", "x", "y", "z">>

UpperChars == <<"A", "B", "C", "D", "E", "F", "G", "H", "I", "J", "K", "L", "M",
                "N", "O", "P", "Q", "R", "S", "T", "U", "V", "W", "X", "Y", "Z">>

Range(s) == {s[i] : i \in DOMAIN s}

MinOf(S) == CHOOSE x \in S : \A y \in S : x <= y

\* the least position of a set of positions, 0 when there is none
MinOrZero(S) == IF S = {} THEN 0 ELSE MinOf(S)

IsDigit(c) == c \in Range(DigitChars)

DigitVal(c) == (CHOOSE i \in DOMAIN DigitChars : DigitChars[i] = c) - 1

\* \s of the re module, on the characters the model uses
IsSpace(c) == c \in {" ", "\t", "\n"}

IsLower(c) == c \in Range(LowerChars)

IsUpper(c) == c \in Range(UpperChars)

IsLetter(c) == IsLower(c) \/ IsUpper(c)

\* str.lower() on one character
ToLower(c) ==
    IF IsUpper(c) THEN LowerChars[CHOOSE i \in DOMAIN UpperChars : UpperChars[i] = c]
    ELSE c

\* str.upper() on one character
ToUpper(c) ==
    IF IsLower(c) THEN UpperChars[CHOOSE i \in DOMAIN LowerChars : LowerChars[i] = c]
    ELSE c

LowerText(t) == [i \in DOMAIN t |-> ToLower(t[i])]

UpperText(t) == [i \in DOMAIN t |-> ToUpper(t[i])]

\* str.title(): the first letter of every run of letters in upper case, the
\* other letters in lower case
TitleText(t) ==
    [i \in DOMAIN t |->
        IF i = 1 \/ ~IsLetter(t[IF i = 1 THEN 1 ELSE i - 1])
        THEN ToUpper(t[i]) ELSE ToLower(t[i])]

\* int() of a run of decimal digits
RECURSIVE IntOf(_)
IntOf(t) ==
    IF t = <<>> THEN 0
    ELSE 10 * IntOf(SubSeq(t, 1, Len(t) - 1)) + DigitVal(t[Len(t)])

\* format n with at least w digits, zero padded (the :04d and :02d formats)
RECURSIVE FormatInt(_, _)
FormatInt(n, w) ==
    IF w <= 1 /\ n < 10 THEN <<DigitChars[n + 1]>>
    ELSE Append(FormatInt(n \div 10, w - 1), DigitChars[(n % 10) + 1])

\* the literal w (given in lower case) is at position p of t, ignoring case
WordAt(t, p, w) ==
    /\ p >= 1
    /\ p + Len(w) - 1 <= Len(t)
    /\ \A i \in 1..Len(w) : ToLower(t[p + i - 1]) = w[i]

\* the literal w is at position p of t, case kept (str `in`, re without flags)
ExactAt(t, p, w) ==
    /\ p >= 1
    /\ p + Len(w) - 1 <= Len(t)
    /\ \A i \in 1..Len(w) : t[p + i - 1] = w[i]

\* `w in t` of Python
Contains(t, w) == \E p \in 1..Len(t) : ExactAt(t, p, w)

\* str.split(sep) for a one-character separator
RECURSIVE SplitOn(_, _)
SplitOn(t, sep) ==
    LET S == {i \in DOMAIN t : t[i] = sep}
    IN  IF S = {} THEN <<t>>
        ELSE LET i == MinOf(S)
             IN  <<SubSeq(t, 1, i - 1)>> \o SplitOn(SubSeq(t, i + 1, Len(t)), sep)

(***************************************************************************)
(* The calendar of datetime                                                *)
(***************************************************************************)
IsLeap(y) == (y % 4 = 0 /\ y % 100 # 0) \/ y % 400 = 0

DaysInMonth(y, m) ==
    IF m = 2 THEN (IF IsLeap(y) THEN 29 ELSE 28)
    ELSE IF m \in {4, 6, 9, 11} THEN 30 ELSE 31

\* datetime(y, m, d, hh, mi) raises ValueError outside these ranges
ValidDateTime(y, m, d, hh, mi) ==
    /\ y \in 1..9999
    /\ m \in 1..12
    /\ d >= 1 /\ d <= DaysInMonth(y, m)
    /\ hh \in 0..23
    /\ mi \in 0..59

RECURSIVE DaysBeforeMonth(_, _)
DaysBeforeMonth(y, m) ==
    IF m <= 1 THEN 0 ELSE DaysBeforeMonth(y, m - 1) + DaysInMonth(y, m - 1)

\* leap years in 1..y
LeapsUpTo(y) == (y \div 4) - (y \div 100) + (y \div 400)

\* days from 2000-01-01 to y-m-d
DaysSince2000(y, m, d) ==
    365 * (y - 2000) + (LeapsUpTo(y - 1) - LeapsUpTo(1999))
        + DaysBeforeMonth(y, m) + (d - 1)

\* datetime(y, m, d, hh, mi, tzinfo=utc) as seconds since 2000-01-01T00:00:00Z
Instant(y, m, d, hh, mi) == (DaysSince2000(y, m, d) * 1440 + hh * 60 + mi) * 60

(***************************************************************************)
(* The row pattern and the event pattern of _async_fetch_nasa              *)
(***************************************************************************)
\* .{0,120}? : the widest gap the event pattern tolerates between two fields
MaxGap == 120

\* month_map, in order of month number
MonthNames == << <<"J", "a", "n">>, <<"F", "e", "b">>, <<"M", "a", "r">>,
                 <<"A", "p", "r">>, <<"M", "a", "y">>, <<"J", "u", "n">>,
                 <<"J", "u", "l">>, <<"A", "u", "g">>, <<"S", "e", "p">>,
                 <<"O", "c", "t">>, <<"N", "o", "v">>, <<"D", "e", "c">> >>

\* month_map.get(txt): the month number, 0 for None
MonthMapGet(txt) ==
    LET S == {k \in DOMAIN MonthNames : MonthNames[k] = txt}
    IN  IF S = {} THEN 0 ELSE MinOf(S)

\* the alternatives Total|Annular|Partial|Hybrid|[TAPH], in the order the
\* pattern tries them, in lower case (the pattern ignores case)
TypeAlternatives == << <<"t", "o", "t", "a", "l">>,
                       <<"a", "n", "n", "u", "l", "a", "r">>,
                       <<"p", "a", "r", "t", "i", "a", "l">>,
                       <<"h", "y", "b", "r", "i", "d">>,
                       <<"t">>, <<"a">>, <<"p">>, <<"h">> >>

\* type_map.get(key): the type, "None" when the key is absent
TypeMapGet(key) ==
    CASE key = <<"T">> -> "Total"
      [] key = <<"A">> -> "Annular"
      [] key = <<"P">> -> "Partial"
      [] key = <<"H">> -> "Hybrid"
      [] key = <<"T", "o", "t", "a", "l">> -> "Total"
      [] key = <<"A", "n", "n", "u", "l", "a", "r">> -> "Annular"
      [] key = <<"P", "a", "r", "t", "i", "a", "l">> -> "Partial"
      [] key = <<"H", "y", "b", "r", "i", "d">> -> "Hybrid"
      [] OTHER -> "None"

\* type_map.get(typ_raw.title(), type_map.get(typ_raw.upper(), "Partial"))
TypeOf(typ_raw) ==
    LET byTitle == TypeMapGet(TitleText(typ_raw))
        byUpper == TypeMapGet(UpperText(typ_raw))
    IN  IF byTitle # "None" THEN byTitle
        ELSE IF byUpper # "None" THEN byUpper
        ELSE "Partial"

\* first position at or after p that holds no whitespace (Len(t) + 1 at the end)
SkipSpaces(t, p) ==
    LET S == {q \in p..Len(t) : ~IsSpace(t[q])}
    IN  IF S = {} THEN Len(t) + 1 ELSE MinOf(S)

\* (\d{2}:\d{2}) at position p
TimeAt(t, p) ==
    /\ p >= 1
    /\ p + 4 <= Len(t)
    /\ IsDigit(t[p]) /\ IsDigit(t[p + 1])
    /\ t[p + 2] = ":"
    /\ IsDigit(t[p + 3]) /\ IsDigit(t[p + 4])

\* .{0,120}?(\d{2}:\d{2}) from position p: where the time starts, 0 for none
FirstTimeFrom(t, p) == MinOrZero({q \in p..(p + MaxGap) : TimeAt(t, q)})

\* (Total|...|[TAPH]).{0,120}?(\d{2}:\d{2}) at position q: the first alternative,
\* in the pattern's order, after which a time is found; 0 for none
TypeAltAt(t, q) ==
    MinOrZero({k \in DOMAIN TypeAlternatives :
                  /\ WordAt(t, q, TypeAlternatives[k])
                  /\ FirstTimeFrom(t, q + Len(TypeAlternatives[k])) # 0})

\* .{0,120}?(type).{0,120}?(time) from position p (the character after the
\* day): where the type token starts, 0 for none
FirstTypeFrom(t, p) ==
    MinOrZero({q \in p..(p + MaxGap) : q <= Len(t) /\ TypeAltAt(t, q) # 0})

NoMatch == [found |-> FALSE]

\* the match object: the span and the five groups
Groups(t, s, mpos, dpos, dend, q, qe, tm) ==
    [found |-> TRUE, start |-> s, end |-> tm + 4,
     year |-> SubSeq(t, s, s + 3),
     mon  |-> SubSeq(t, mpos, mpos + 2),
     day  |-> SubSeq(t, dpos, dend),
     typ  |-> SubSeq(t, q, qe),
     time |-> SubSeq(t, tm, tm + 4)]

\* the type token is t[q..qe]: the time is the first one after it
TailTyped(t, s, mpos, dpos, dend, q, qe) ==
    Groups(t, s, mpos, dpos, dend, q, qe, FirstTimeFrom(t, qe + 1))

\* the type token starts at q (0 for none) with the first alternative that fits
TailFrom(t, s, mpos, dpos, dend, q) ==
    IF q = 0 THEN NoMatch
    ELSE TailTyped(t, s, mpos, dpos, dend, q,
                   q + Len(TypeAlternatives[TypeAltAt(t, q)]) - 1)

\* the rest of the pattern once the day is taken as t[dpos..dend]
TailMatch(t, s, mpos, dpos, dend) ==
    TailFrom(t, s, mpos, dpos, dend, FirstTypeFrom(t, dend + 1))

\* \d{1,2} is greedy: the match with two digits first, then the one with one
Greedy(wide, narrow) == IF wide.found THEN wide ELSE narrow

\* ...\s+(\d{1,2})... with the day at dpos
DayAt(t, s, mpos, dpos) ==
    IF ~(dpos > mpos + 3 /\ dpos <= Len(t) /\ IsDigit(t[dpos])) THEN NoMatch
    ELSE Greedy(IF dpos + 1 <= Len(t) /\ IsDigit(t[dpos + 1])
                THEN TailMatch(t, s, mpos, dpos, dpos + 1) ELSE NoMatch,
                TailMatch(t, s, mpos, dpos, dpos))

\* ...\s+(Jan|...|Dec)... with the month at mpos
MonthAt(t, s, mpos) ==
    IF ~(/\ mpos > s + 4
         /\ \E k \in DOMAIN MonthNames : WordAt(t, mpos, LowerText(MonthNames[k])))
    THEN NoMatch
    ELSE DayAt(t, s, mpos, SkipSpaces(t, mpos + 3))

\* pattern.match at position s: the groups, or NoMatch
PatternMatchAt(t, s) ==
    IF ~(/\ s + 3 <= Len(t)
         /\ t[s] = "2" /\ t[s + 1] = "0"
         /\ IsDigit(t[s + 2]) /\ IsDigit(t[s + 3]))
    THEN NoMatch
    ELSE MonthAt(t, s, SkipSpaces(t, s + 4))

\* the match at position s, NoMatch for position 0
MatchAtOrNone(t, s) == IF s = 0 THEN NoMatch ELSE PatternMatchAt(t, s)

\* pattern.search(t) from position from: the leftmost match
PatternSearchFrom(t, from) ==
    MatchAtOrNone(t, MinOrZero({s \in from..Len(t) : PatternMatchAt(t, s).found}))

PatternSearch(t) == PatternSearchFrom(t, 1)

\* pattern.finditer(t): the successive non-overlapping matches
RECURSIVE PatternFindIterFrom(_, _)
MatchesWith(t, m) ==
    IF ~m.found THEN <<>> ELSE <<m>> \o PatternFindIterFrom(t, m.end + 1)

PatternFindIterFrom(t, from) == MatchesWith(t, PatternSearchFrom(t, from))

PatternFindIter(t) == PatternFindIterFrom(t, 1)

\* the end of the row whose opening tag ends at g (0 for none): the first
\* closing tag after it
RowCloseFrom(t, g) ==
    IF g = 0 THEN 0
    ELSE MinOrZero({c + 4 : c \in {x \in (g + 1)..Len(t) :
                                      WordAt(t, x, <<"<", "/", "t", "r", ">">>)}})

\* row_pattern <tr[\s\S]*?>[\s\S]*?<\/tr> at position s: the last position of
\* the match, 0 for none
RowEndAt(t, s) ==
    IF ~WordAt(t, s, <<"<", "t", "r">>) THEN 0
    ELSE RowCloseFrom(t, MinOrZero({g \in (s + 3)..Len(t) : t[g] = ">"}))

\* row_pattern.findall(t): the successive non-overlapping rows
RECURSIVE RowFindAllFrom(_, _)
RowsWith(t, s, e) == <<SubSeq(t, s, e)>> \o RowFindAllFrom(t, e + 1)

RowsAt(t, s) == IF s = 0 THEN <<>> ELSE RowsWith(t, s, RowEndAt(t, s))

RowFindAllFrom(t, from) ==
    RowsAt(t, MinOrZero({s \in from..Len(t) : RowEndAt(t, s) # 0}))

RowFindAll(t) == RowFindAllFrom(t, 1)

(***************************************************************************)
(* Events and the catalog parser of _async_fetch_nasa                      *)
(***************************************************************************)
\* None of an Optional field
None == <<>>

Some(v) == <<v>>

\* region_keywords of _extract_region_hint, in the dict's order
RegionKeywords ==
    <<
       [region |-> "Africa",
        keys |-> << <<"a", "f", "r", "i", "c", "a">> >>],
       [region |-> "Asia",
        keys |-> << <<"a", "s", "i", "a">> >>],
       [region |-> "Europe",
        keys |-> << <<"e", "u", "r", "o", "p", "e">> >>],
       [region |-> "North America",
        keys |-> << <<"n", "o", "r", "t", "h", " ", "a", "m", "e", "r", "i", "c", "a">>,
                  <<"u", "s", "a">>,
                  <<"u", "n", "i", "t", "e", "d", " ", "s", "t", "a", "t", "e", "s">>,
                  <<"c", "a", "n", "a", "d", "a">>,
                  <<"m", "e", "x", "i", "c", "o">> >>],
       [region |-> "South America",
        keys |-> << <<"s", "o", "u", "t", "h", " ", "a", "m", "e", "r", "i", "c", "a">> >>],
       [region |-> "Oceania",
        keys |-> << <<"o", "c", "e", "a", "n", "i", "a">>,
                  <<"a", "u", "s", "t", "r", "a", "l", "i", "a">>,
                  <<"n", "e", "w", " ", "z", "e", "a", "l", "a", "n", "d">> >>],
       [region |-> "Antarctica",
        keys |-> << <<"a", "n", "t", "a", "r", "c", "t", "i", "c", "a">> >>]
    >>

\* _extract_region_hint(row_text): the first region one of whose keywords is
\* in the lower-cased row, None for none
ExtractRegionHint(row_text) ==
    LET lower_text == LowerText(row_text)
        S == {i \in DOMAIN RegionKeywords :
                \E j \in DOMAIN RegionKeywords[i].keys :
                    Contains(lower_text, RegionKeywords[i].keys[j])}
    IN  IF S = {} THEN None ELSE Some(RegionKeywords[MinOf(S)].region)

\* EclipseEvent
Event(identifier, dt, typ, hint) ==
    [identifier |-> identifier, date |-> dt, type |-> typ,
     start |-> None, end |-> None, region_text |-> hint]

\* f"{year:04d}-{month:02d}-{day:02d}"
FormatIdentifier(year, month, day) ==
    FormatInt(year, 4) \o <<"-">> \o FormatInt(month, 2) \o <<"-">> \o FormatInt(day, 2)

\* lines 254-261 (and 271-278): datetime(...) with the time, in the except
\* branch datetime(...) at 00:00, whose ValueError nothing catches
EventAt(year, month, day, typ, hour, minute, hint) ==
    IF ValidDateTime(year, month, day, hour, minute)
    THEN [raised |-> FALSE,
          event |-> Event(FormatIdentifier(year, month, day),
                          Instant(year, month, day, hour, minute), typ, hint)]
    ELSE IF ValidDateTime(year, month, day, 0, 0)
    THEN [raised |-> FALSE,
          event |-> Event(FormatIdentifier(year, month, day),
                          Instant(year, month, day, 0, 0), typ, hint)]
    ELSE [raised |-> TRUE]

\* hh, mm = [int(x) for x in time_utc.split(":")]
EventOfFields(year, month, day, typ, parts, hint) ==
    EventAt(year, month, day, typ, IntOf(parts[1]), IntOf(parts[2]), hint)

\* lines 247-261 (and 265-278): the event of one match m, or the ValueError
\* that datetime() raises from the except branch when the day is no day of
\* the month
EventOfMatch(m, hint) ==
    EventOfFields(IntOf(m.year), MonthMapGet(TitleText(m.mon)), IntOf(m.day),
                  TypeOf(m.typ), SplitOn(m.time, ":"), hint)

\* the outcome of a scan: the events so far, or the exception that ended it
Scanned(evs) == [raised |-> FALSE, events |-> evs]

Raised == [raised |-> TRUE, events |-> <<>>]

\* lines 243-261: the events the loop appends for the rows from row i on
RECURSIVE ScanRowsFrom(_, _, _)
RowParsed(evs, rows, i, r) ==
    IF r.raised THEN Raised ELSE ScanRowsFrom(Append(evs, r.event), rows, i + 1)

RowMatched(evs, rows, i, m) ==
    IF ~m.found THEN ScanRowsFrom(evs, rows, i + 1)
    ELSE RowParsed(evs, rows, i, EventOfMatch(m, ExtractRegionHint(rows[i])))

ScanRowsFrom(evs, rows, i) ==
    IF i > Len(rows) THEN Scanned(evs)
    ELSE RowMatched(evs, rows, i, PatternSearch(rows[i]))

\* lines 264-278: the events the scan of the whole page appends, from match i on
RECURSIVE ScanMatchesFrom(_, _, _)
MatchParsed(evs, ms, i, r) ==
    IF r.raised THEN Raised ELSE ScanMatchesFrom(Append(evs, r.event), ms, i + 1)

ScanMatchesFrom(evs, ms, i) ==
    IF i > Len(ms) THEN Scanned(evs)
    ELSE MatchParsed(evs, ms, i, EventOfMatch(ms[i], None))

\* lines 242-261 for one text: what its rows append to an empty list
RowScan(page) == ScanRowsFrom(<<>>, RowFindAll(page), 1)

\* lines 264-278 for one text: what its matches append to an empty list
PageScan(page) == ScanMatchesFrom(<<>>, PatternFindIter(page), 1)

(***************************************************************************)
(* The pages the catalog servers may answer with                           *)
(***************************************************************************)
\* one row, the fragment of the specification's round trip: 2026-02-17, Annular, 17:00
\* <tr>2026 Feb 17 ... Annular ... 17:00</tr>
PageAnnular ==
    <<"<", "t", "r", ">", "2", "0", "2", "6", " ", "F", "e", "b", " ", "1",
      "7", " ", ".", ".", ".", " ", "A", "n", "n", "u", "l", "a", "r", " ",
      ".", ".", ".", " ", "1", "7", ":", "0", "0", "<", "/", "t", "r", ">">>

\* two rows: 2026-02-17 again at an earlier time (09:30), and 2027-08-02
\* <tr>2026 Feb 17 . P . 09:30</tr><tr>2027 Aug 2 . T . 10:08</tr>
PageTwoRows ==
    <<"<", "t", "r", ">", "2", "0", "2", "6", " ", "F", "e", "b", " ", "1",
      "7", " ", ".", " ", "P", " ", ".", " ", "0", "9", ":", "3", "0", "<",
      "/", "t", "r", ">", "<", "t", "r", ">", "2", "0", "2", "7", " ", "A",
      "u", "g", " ", "2", " ", ".", " ", "T", " ", ".", " ", "1", "0", ":",
      "0", "8", "<", "/", "t", "r", ">">>

\* one row that matches the pattern and names February 30
\* <tr>2026 Feb 30 . T . 12:00</tr>
PageBadDay ==
    <<"<", "t", "r", ">", "2", "0", "2", "6", " ", "F", "e", "b", " ", "3",
      "0", " ", ".", " ", "T", " ", ".", " ", "1", "2", ":", "0", "0", "<",
      "/", "t", "r", ">">>

\* no table row: only the scan of the whole page finds 2031-05-21
\* 2031 May 21 . A . 07:15
PageNoRows ==
    <<"2", "0", "3", "1", " ", "M", "a", "y", " ", "2", "1", " ", ".", " ",
      "A", " ", ".", " ", "0", "7", ":", "1", "5">>

\* a page on which nothing matches
\* <tr>none</tr>
PageNoMatch ==
    <<"<", "t", "r", ">", "n", "o", "n", "e", "<", "/", "t", "r", ">">>

\* a response with status 200 and an empty body
PageEmpty == <<>>

\* a table row built from its fields: the year, the month name, the day, the
\* type token and the time, with gap between the day, the type and the time
FragmentPage(f) ==
    <<"<", "t", "r", ">">> \o f.year \o <<" ">> \o f.mon \o <<" ">> \o f.day
        \o f.gap \o f.typ \o f.gap \o f.time \o <<"<", "/", "t", "r", ">">>

\* plain text between the fields, and the markup between two table cells
GapSamples ==
    {<<" ", ".", ".", ".", " ">>,
     <<"<", "/", "t", "d", ">", "<", "t", "d", ">">>}

\* the type tokens of the catalog, the words and the one-letter codes, each
\* with the type it names
TypeTokenSamples ==
    {[token |-> <<"A", "n", "n", "u", "l", "a", "r">>, type |-> "Annular"],
     [token |-> <<"T", "o", "t", "a", "l">>, type |-> "Total"],
     [token |-> <<"P">>, type |-> "Partial"],
     [token |-> <<"H">>, type |-> "Hybrid"]}

\* two dates as the catalog writes them, each with its identifier and instant
DateSamples ==
    {[year |-> <<"2", "0", "2", "6">>, mon |-> <<"F", "e", "b">>,
      day |-> <<"1", "7">>, time |-> <<"1", "7", ":", "0", "0">>,
      identifier |-> <<"2", "0", "2", "6", "-", "0", "2", "-", "1", "7">>,
      date |-> Instant(2026, 2, 17, 17, 0)],
     [year |-> <<"2", "0", "2", "7">>, mon |-> <<"A", "u", "g">>,
      day |-> <<"2">>, time |-> <<"1", "0", ":", "0", "8">>,
      identifier |-> <<"2", "0", "2", "7", "-", "0", "8", "-", "0", "2">>,
      date |-> Instant(2027, 8, 2, 10, 8)]}

\* the row fragments of the round trip: the fields as written, and the
\* identifier, type and date they stand for
Fragments ==
    {[year |-> d.year, mon |-> d.mon, day |-> d.day, time |-> d.time,
      typ |-> t.token, gap |-> g,
      identifier |-> d.identifier, type |-> t.type, date |-> d.date] :
        d \in DateSamples, t \in TypeTokenSamples, g \in GapSamples}

FragmentPages == {FragmentPage(f) : f \in Fragments}

\* the pages of the coordinator's specifications
CatalogPages ==
    {PageAnnular, PageTwoRows, PageBadDay, PageNoRows, PageNoMatch, PageEmpty}

KnownPages == CatalogPages \cup FragmentPages

\* the two scans of every page a server of the model can answer with, each
\* computed once
ScansOfPages ==
    {[body |-> p, rows |-> RowScan(p), whole |-> PageScan(p)] : p \in KnownPages}

ScansOf(page) == CHOOSE s \in ScansOfPages : s.body = page

\* lines 242-278 with the scans of the page: the scan of the whole page runs
\* when the list is still empty after the rows
MergeScans(evs, scans) ==
    IF scans.rows.raised THEN Raised
    ELSE IF evs \o scans.rows.events = <<>> THEN scans.whole
    ELSE Scanned(evs \o scans.rows.events)

\* lines 242-278: what one fetched page adds to the events collected so far
ParsePage(evs, page) == MergeScans(evs, ScansOf(page))

\* lines 281-285: the dict uniq, as the sequence of its values in insertion
\* order, after the events from i on are entered
RECURSIVE DedupFrom(_, _, _)
DedupFrom(uniq, evs, i) ==
    IF i > Len(evs) THEN uniq
    ELSE LET e == evs[i]
             S == {k \in DOMAIN uniq : uniq[k].identifier = e.identifier}
         IN  IF S = {} THEN DedupFrom(Append(uniq, e), evs, i + 1)
             ELSE LET k == CHOOSE x \in S : TRUE
                  IN  IF e.date < uniq[k].date
                      THEN DedupFrom([uniq EXCEPT ![k] = e], evs, i + 1)
                      ELSE DedupFrom(uniq, evs, i + 1)

\* list.sort(key=lambda e: e.date): stable, ascending
SortByDate(evs) ==
    [k \in 1..Len(evs) |->
        evs[CHOOSE i \in DOMAIN evs :
                Cardinality({j \in DOMAIN evs :
                                \/ evs[j].date < evs[i].date
                                \/ evs[j].date = evs[i].date /\ j <= i}) = k]]

\* lines 279-287: dedup and sort
DedupOnly(evs) ==
    IF evs # <<>> THEN DedupFrom(<<>>, evs, 1) ELSE evs

DedupSort(evs) ==
    IF evs # <<>> THEN SortByDate(DedupFrom(<<>>, evs, 1)) ELSE evs

\* ECLIPSE_FALLBACK of const.py
ECLIPSE_FALLBACK ==
    <<
       [identifier |-> <<"2", "0", "2", "6", "-", "0", "2", "-", "1", "7">>,
        type |-> "Annular", time_utc |-> <<"1", "7", ":", "0", "0">>],
       [identifier |-> <<"2", "0", "2", "6", "-", "0", "8", "-", "1", "2">>,
        type |-> "Total", time_utc |-> <<"1", "7", ":", "0", "0">>],
       [identifier |-> <<"2", "0", "2", "7", "-", "0", "8", "-", "0", "2">>,
        type |-> "Total", time_utc |-> <<"1", "0", ":", "0", "8">>]
    >>

\* lines 350-356: the built-in list as events
FallbackEvents ==
    [i \in DOMAIN ECLIPSE_FALLBACK |->
        LET item == ECLIPSE_FALLBACK[i]
            ymd  == SplitOn(item.identifier, "-")
            hm   == SplitOn(item.time_utc, ":")
        IN  Event(item.identifier,
                  Instant(IntOf(ymd[1]), IntOf(ymd[2]), IntOf(ymd[3]),
                          IntOf(hm[1]), IntOf(hm[2])),
                  item.type, None)]

(***************************************************************************)
(* Constants of the coordinator                                            *)
(***************************************************************************)
\* self._cache_ttl = timedelta(hours=24), in seconds
CacheTtl == 86400

\* update_interval = timedelta(days=1), in seconds
UpdateInterval == 86400

\* for attempt in range(3)
Attempts == 3

\* delay = 1.0
FirstDelay == 1

\* batch_size = 25
BatchSize == 25

\* asyncio.Semaphore(3)
Permits == 3

\* SUPPORTED_REGIONS of const.py
SUPPORTED_REGIONS ==
    {"Global", "Africa", "Asia", "Europe", "North America", "South America",
     "Oceania", "Antarctica"}

(***************************************************************************)
(* Bounds of the model                                                     *)
(***************************************************************************)
\* how many of the NASA_DECADE_URLS the model fetches (const.py lists five)
NumSources == 2

\* how many refreshes one behaviour holds
MaxRefreshes == 2

\* the time a refresh spends in backoff when every request of every source fails
FailDuration == NumSources * (FirstDelay + 2 * FirstDelay)

\* how long the coordinator may sit idle between two refreshes: so that a
\* refresh whose requests all fail checks the cache one minute before the
\* snapshot is 24 hours old, exactly then, and one hour later
ElapseSteps ==
    {CacheTtl - FailDuration - 60, CacheTtl - FailDuration,
     CacheTtl - FailDuration + 3600}

(***************************************************************************)
(* State                                                                   *)
(***************************************************************************)
VARIABLES
    clock,              \* datetime.now(timezone.utc), in seconds
    web,                \* the pages the catalog servers may answer with
    flaky,              \* whether a server that failed may answer a retry
    sky,                \* the identifiers of the eclipses seen from the place
    broken,             \* the identifiers of the events the ephemeris raises for
    install_skyfield,   \* self.install_skyfield
    SKYFIELD_AVAILABLE, \* the module flag set by the skyfield import
    region,             \* self.region
    num_events,         \* self.num_events
    ephemeris,          \* self._ephemeris: None or Some("de421")
    cache_events,       \* self._cache_events: None or Some(list)
    cache_timestamp,    \* self._cache_timestamp: None or Some(instant)
    data,               \* coordinator.data: None or Some(list)
    pc,                 \* where the refresh is
    url_idx,            \* the index of url in NASA_DECADE_URLS
    attempt,            \* attempt of _async_fetch_text
    delay,              \* delay of _async_fetch_text
    requests,           \* how many session.get calls the url has had
    text,               \* what _async_fetch_text returned for the url
    missed,             \* how many urls of this refresh gave no text
    events,             \* events of _async_fetch_nasa
    parsed,             \* what _async_fetch_nasa returned to this refresh
    nasa_events,        \* nasa_events of _async_update_data: the catalog used
    tier,               \* which branch of lines 340-356 the refresh logged
    prev_tier,          \* the same of the refresh before
    outcome,            \* how the last refresh ended: returned or raised
    refreshes,          \* how many refreshes have started
    idled,              \* whether time has passed since the last refresh
    last_done,          \* when the last refresh ended
    status_seen,        \* the status signal after a refresh of each tier
    future,             \* future of _async_update_data, once it is computed
    start_idx,          \* start_idx of the loop over the batches
    visible,            \* visible of the ephemeris branch
    coverages,          \* coverages of the batch, as far as gathered
    acquired,           \* how many local_max_cov of the batch entered the semaphore
    holding,            \* the positions in the batch that are inside it
    permits,            \* the value of self._sf_semaphore
    started,            \* the indices of future whose evaluation has begun
    lookup,             \* the index in future of the event being looked up
    index_text,         \* index_text of _async_visible_in_region
    url,                \* url of _async_visible_in_region
    region_text,        \* region_text of _async_visible_in_region
    vis_flags,          \* vis_flags of the region branch, as far as gathered
    answers,            \* what the servers answered to each lookup
    almanac,            \* how far apart the ephemeris puts the Sun and the Moon
    approx_when,        \* approx_when of the call in progress
    called,             \* which method of the coordinator a sensor called last
    result,             \* what the call returned
    observed,           \* whether a call has asked the ephemeris for a position
    cached_values,      \* the _cached_ attributes of the entity of index 0
    last_recompute_day, \* self._last_recompute_day: None or Some(day)
    last_event_identifier, \* self._last_event_identifier: None or Some(identifier)
    recomputed,         \* how the last _recompute of the entity ended
    faulted,            \* whether the ephemeris raised in the last _recompute
    handled,            \* how many refreshes _handle_coordinator_update has seen
    timer_day,          \* the day the timer of the entity last fired
    searches,           \* the local-maximum searches of the last _recompute
    platform,           \* how async_setup_entry of binary_sensor.py ended
    is_on               \* _attr_is_on of the binary sensor, None while there is none

config ==
    <<web, flaky, sky, broken, install_skyfield, SKYFIELD_AVAILABLE, region,
      num_events>>

cache == <<cache_events, cache_timestamp>>

fetch == <<url_idx, attempt, delay, requests, text, missed, events>>

\* the locals of the ephemeris branch of _async_update_data, and the semaphore
evaluator ==
    <<future, start_idx, visible, coverages, acquired, holding, permits, started>>

\* the locals of the region branch and of _async_visible_in_region
resolver == <<lookup, index_text, url, region_text, vis_flags, answers>>

\* the entity of index 0: EclipseAggregateSensor, lines 635-645
entity ==
    <<cached_values, last_recompute_day, last_event_identifier, recomputed, faulted,
      handled, timer_day, searches, platform, is_on>>

\* a call of one of the three methods of lines 404-525, the ephemeris it
\* reads, and the entity that calls them
searcher == <<almanac, approx_when, called, result, observed, entity>>

vars ==
    <<clock, config, ephemeris, cache, data, pc, fetch, parsed, nasa_events, tier,
      prev_tier, outcome, refreshes, idled, last_done, status_seen, evaluator,
      resolver, searcher>>

\* Python's truth value of an Optional list or text
Truthy(opt) == opt # None /\ opt[1] # <<>>

\* the configured region taken as it is
KeepRegion(r) == r

\* self.region = region if region in SUPPORTED_REGIONS else "Global"
NormalRegion(r) == IF r \in SUPPORTED_REGIONS THEN r ELSE "Global"

\* self.num_events = max(1, min(10, int(num_events)))
ClampEvents(n) ==
    LET m == IF n < 10 THEN n ELSE 10
    IN  IF m > 1 THEN m ELSE 1

\* seq[:n]
Take(seq, n) == SubSeq(seq, 1, IF n < Len(seq) THEN n ELSE Len(seq))

(***************************************************************************)
(* The setup status sensor                                                 *)
(***************************************************************************)
\* EclipseSetupStatusSensor.native_value, for coordinator.data = d and
\* coordinator._ephemeris = eph
NativeValue(d, eph) ==
    IF ~Truthy(d) THEN "Loading data..."
    ELSE IF install_skyfield /\ SKYFIELD_AVAILABLE /\ eph = None
    THEN "Loading Skyfield..."
    ELSE "Ready"

\* EclipseSetupStatusSensor.extra_state_attributes
StatusAttributes(d, eph) ==
    [data_loaded |-> Truthy(d),
     skyfield_installed |-> install_skyfield /\ SKYFIELD_AVAILABLE,
     ephemeris_loaded |-> eph # None,
     features_available |-> Truthy(d) /\ (~install_skyfield \/ eph # None)]

\* the status signal the host reads: the sensor's state and its attributes
StatusOf(d, eph) ==
    [state |-> NativeValue(d, eph), attributes |-> StatusAttributes(d, eph)]

StatusSignal == StatusOf(data, ephemeris)

(***************************************************************************)
(* The refresh: EclipseCoordinator._async_update_data                      *)
(***************************************************************************)
\* the locals of _async_fetch_nasa and _async_fetch_text once they are gone
FetchIdle ==
    /\ url_idx' = 0
    /\ attempt' = 0
    /\ delay' = FirstDelay
    /\ requests' = 0
    /\ text' = None
    /\ missed' = 0
    /\ events' = <<>>

\* the scheduler, or async_config_entry_first_refresh, calls _async_update_data
BeginRefresh ==
    /\ pc = "idle"
    /\ refreshes < MaxRefreshes
    /\ pc' = "setup"
    /\ refreshes' = refreshes + 1
    /\ idled' = FALSE
    /\ prev_tier' = tier
    /\ tier' = "none"
    /\ outcome' = "running"
    /\ parsed' = <<>>
    /\ nasa_events' = <<>>
    /\ UNCHANGED <<config, ephemeris, cache, data, fetch, last_done, status_seen>>
    /\ UNCHANGED <<evaluator, resolver, searcher>>

\* a refresh at any time: the first one, a reload, a requested update
StartRefresh ==
    /\ BeginRefresh
    /\ clock' = clock

\* time passes while the coordinator is idle
Elapse(d) ==
    /\ pc = "idle"
    /\ refreshes >= 1
    /\ refreshes < MaxRefreshes
    /\ ~idled
    /\ clock' = clock + d
    /\ idled' = TRUE
    /\ UNCHANGED <<config, ephemeris, cache, data, pc, fetch, parsed, nasa_events,
                   tier, prev_tier, outcome, refreshes, last_done, status_seen>>
    /\ UNCHANGED <<evaluator, resolver, searcher>>

LoadAnew(inst, avail, eph) ==
    IF ~inst \/ ~avail THEN {eph} ELSE {None, Some("de421")}

\* lines 175-185: what self._ephemeris may be after _async_setup_skyfield;
\* the load in the executor succeeds or raises, and the except branch leaves
\* None
LoadOutcomes(inst, avail, eph) ==
    IF ~inst \/ ~avail \/ eph # None THEN {eph} ELSE {None, Some("de421")}

\* _async_setup_skyfield, then the first url of _async_fetch_nasa
SetupSkyfield ==
    /\ pc = "setup"
    /\ ephemeris' \in LoadOutcomes(install_skyfield, SKYFIELD_AVAILABLE, ephemeris)
    /\ pc' = "request"
    /\ url_idx' = 1
    /\ attempt' = 0
    /\ delay' = FirstDelay
    /\ requests' = 0
    /\ text' = None
    /\ missed' = 0
    /\ events' = <<>>
    /\ UNCHANGED <<clock, config, cache, data, parsed, nasa_events, tier, prev_tier,
                   outcome, refreshes, idled, last_done, status_seen>>
    /\ UNCHANGED <<evaluator, resolver, searcher>>

\* if attempt < 2: whether a failed attempt is followed by a sleep and another
MayRetryAlways(a) == a < Attempts

MayRetry(a) == a < Attempts - 1

\* session.get answers 200 and resp.text() gives body: _async_fetch_text
\* returns it
RequestOk(body) ==
    /\ pc = "request"
    /\ flaky \/ attempt = 0
    /\ requests' = requests + 1
    /\ text' = Some(body)
    /\ pc' = "fetched"
    /\ UNCHANGED <<clock, config, ephemeris, cache, data, url_idx, attempt, delay,
                   missed, events, parsed, nasa_events, tier, prev_tier, outcome,
                   refreshes, idled, last_done, status_seen>>
    /\ UNCHANGED <<evaluator, resolver, searcher>>

\* session.get answers another status, or it or resp.text() raises: the except
\* branch, which sleeps before the next attempt and returns None after the last
RequestFail ==
    /\ pc = "request"
    /\ requests' = requests + 1
    /\ text' = None
    /\ pc' = IF MayRetry(attempt) THEN "backoff" ELSE "fetched"
    /\ UNCHANGED <<clock, config, ephemeris, cache, data, url_idx, attempt, delay,
                   missed, events, parsed, nasa_events, tier, prev_tier, outcome,
                   refreshes, idled, last_done, status_seen>>
    /\ UNCHANGED <<evaluator, resolver, searcher>>

SameDelay(d) == d

\* delay *= 2
NextDelay(d) == d * 2

\* await asyncio.sleep(delay); delay *= 2; the next attempt
Backoff ==
    /\ pc = "backoff"
    /\ clock' = clock + delay
    /\ delay' = NextDelay(delay)
    /\ attempt' = attempt + 1
    /\ pc' = "request"
    /\ UNCHANGED <<config, ephemeris, cache, data, url_idx, requests, text, missed,
                   events, parsed, nasa_events, tier, prev_tier, outcome, refreshes,
                   idled, last_done, status_seen>>
    /\ UNCHANGED <<evaluator, resolver, searcher>>

\* the exception leaves _async_update_data: the coordinator keeps its data
RaiseOut ==
    /\ pc' = "idle"
    /\ outcome' = "raised"
    /\ last_done' = clock
    /\ FetchIdle
    /\ parsed' = <<>>
    /\ nasa_events' = <<>>
    /\ UNCHANGED <<clock, config, ephemeris, cache, data, tier, prev_tier, refreshes,
                   idled, status_seen>>
    /\ UNCHANGED <<evaluator, resolver, searcher>>

\* lines 239-278 for one url: evs after its text, which adds nothing when
\* there is no text
AfterPage(evs, txt) ==
    IF ~Truthy(txt) THEN Scanned(evs) ELSE ParsePage(evs, txt[1])

\* the loop of lines 238-278 goes on with the events r of the url, or the
\* exception of the scan leaves the refresh
GoOn(r) ==
    IF r.raised THEN RaiseOut
    ELSE /\ events' = r.events
         /\ missed' = IF Truthy(text) THEN missed ELSE missed + 1
         /\ IF url_idx < NumSources
            THEN /\ url_idx' = url_idx + 1
                 /\ pc' = "request"
            ELSE /\ url_idx' = url_idx
                 /\ pc' = "dedup"
         /\ attempt' = 0
         /\ delay' = FirstDelay
         /\ requests' = 0
         /\ text' = None
         /\ UNCHANGED <<clock, config, ephemeris, cache, data, parsed, nasa_events,
                        tier, prev_tier, outcome, refreshes, idled, last_done,
                        status_seen>>
         /\ UNCHANGED <<evaluator, resolver, searcher>>

\* lines 238-278 for the text of url, then the next url or the end of the loop
ScanPage ==
    /\ pc = "fetched"
    /\ GoOn(AfterPage(events, text))

\* lines 279-287: dedup, sort and return to _async_update_data
Dedup ==
    /\ pc = "dedup"
    /\ parsed' = DedupSort(events)
    /\ pc' = "tier"
    /\ UNCHANGED <<clock, config, ephemeris, cache, data, fetch, nasa_events, tier,
                   prev_tier, outcome, refreshes, idled, last_done, status_seen>>
    /\ UNCHANGED <<evaluator, resolver, searcher>>

\* whether a snapshot taken at ts is still served at now
FreshBefore(now, ts) == now - ts < CacheTtl

Fresh(now, ts) == now - ts <= CacheTtl

\* _cache_get at instant now: the cached list, or None
CacheGet(now) ==
    IF Truthy(cache_events) /\ cache_timestamp # None
    THEN IF Fresh(now, cache_timestamp[1]) THEN cache_events ELSE None
    ELSE None

\* the timestamp of the cache after a refresh at now that served the snapshot
\* of ts: _cache_get leaves it alone
TouchedAt(now, ts) == Some(now)

ServedAt(now, ts) == ts

\* lines 340-356: which catalog the refresh uses, given the live catalog and
\* what _cache_get returned: the live one, else the cached one, else the
\* built-in list
TierOfCacheFirst(live, cached) ==
    IF Truthy(cached) THEN "cache" ELSE IF live # <<>> THEN "live" ELSE "fallback"

TierOf(live, cached) ==
    IF live # <<>> THEN "live" ELSE IF Truthy(cached) THEN "cache" ELSE "fallback"

CacheSetEvents(evs, now) == [events |-> Some(evs), timestamp |-> cache_timestamp]

\* _cache_set at instant now: the two assignments, with no await between them
CacheSet(evs, now) == [events |-> Some(evs), timestamp |-> Some(now)]

\* lines 339-356: _cache_set for the live catalog, else the cache, else the
\* built-in list
ChooseTier ==
    /\ pc = "tier"
    /\ tier' = TierOf(parsed, CacheGet(clock))
    /\ IF tier' = "live"
       THEN /\ cache_events' = CacheSet(parsed, clock).events
            /\ cache_timestamp' = CacheSet(parsed, clock).timestamp
            /\ nasa_events' = parsed
       ELSE IF tier' = "cache"
       THEN /\ nasa_events' = CacheGet(clock)[1]
            /\ cache_events' = cache_events
            /\ cache_timestamp' = ServedAt(clock, cache_timestamp)
       ELSE /\ nasa_events' = FallbackEvents
            /\ UNCHANGED cache
    /\ pc' = "select"
    /\ url_idx' = 0
    /\ attempt' = 0
    /\ delay' = FirstDelay
    /\ requests' = 0
    /\ text' = None
    /\ events' = <<>>
    /\ UNCHANGED <<clock, config, ephemeris, data, missed, parsed, prev_tier,
                   outcome, refreshes, idled, last_done, status_seen>>
    /\ UNCHANGED <<evaluator, resolver, searcher>>

\* the events of the catalog in date order, the past ones too
AllEvents(evs, now) == SortByDate(evs)

FutureNewestFirst(evs, now) ==
    LET f == SortByDate(SelectSeq(evs, LAMBDA e : e.date > now))
    IN  [i \in 1..Len(f) |-> f[Len(f) + 1 - i]]

\* lines 358-360: the events of the catalog after now, in date order
FutureOf(evs, now) ==
    SortByDate(SelectSeq(evs, LAMBDA e : e.date > now))

\* whether the eclipse of event e is seen from the configured place
Seen(e) == e.identifier \in sky

\* lines 376-389: the batches from start_idx on, with the visible events so far
RECURSIVE ScanBatches(_, _, _, _)
ScanBatches(evs, idx, found, n) ==
    IF idx >= Len(evs) THEN Take(found, n)
    ELSE LET last  == IF idx + BatchSize < Len(evs)
                      THEN idx + BatchSize ELSE Len(evs)
             batch == SubSeq(evs, idx + 1, last)
             seen  == found \o SelectSeq(batch, Seen)
         IN  IF Len(seen) >= n THEN Take(seen, n)
             ELSE ScanBatches(evs, idx + BatchSize, seen, n)

\* the refresh returns result: the coordinator stores it as its data and the
\* status sensor is written
Return(selected) ==
    /\ data' = Some(selected)
    /\ pc' = "idle"
    /\ outcome' = "returned"
    /\ last_done' = clock
    /\ status_seen' = [status_seen EXCEPT ![tier] = Some(StatusOf(Some(selected), ephemeris))]
    /\ UNCHANGED <<clock, config, ephemeris, cache, fetch, parsed, nasa_events, tier,
                   prev_tier, refreshes, idled>>

\* lines 362-389: with the ephemeris, the first num_events events of positive
\* local-maximum coverage
SelectByEphemeris ==
    /\ pc = "select"
    /\ install_skyfield /\ SKYFIELD_AVAILABLE /\ ephemeris # None
    /\ UNCHANGED <<evaluator, resolver, searcher>>
    /\ Return(ScanBatches(FutureOf(nasa_events, clock), 0, <<>>, num_events))

\* lines 391-402: without it, the events the regional resolver lets pass, or
\* the first num_events future events when it lets none pass
SelectByRegion ==
    /\ pc = "select"
    /\ ~(install_skyfield /\ SKYFIELD_AVAILABLE /\ ephemeris # None)
    /\ UNCHANGED <<evaluator, resolver, searcher>>
    /\ LET upcoming == FutureOf(nasa_events, clock)
           region_visible ==
               IF region = "Global" THEN upcoming ELSE SelectSeq(upcoming, Seen)
       IN  IF upcoming = <<>> THEN Return(<<>>)
           ELSE IF region_visible # <<>>
           THEN Return(Take(region_visible, num_events))
           ELSE Return(Take(upcoming, num_events))

(***************************************************************************)
(* The ephemeris branch step by step: lines 362-389                        *)
(***************************************************************************)
\* future[start_idx:start_idx + batch_size]
BatchOf(evs, idx) ==
    SubSeq(evs, idx + 1, IF idx + BatchSize < Len(evs) THEN idx + BatchSize ELSE Len(evs))

\* whether async_find_local_maximum raises for event e
Raises(e) == e.identifier \in broken

\* lines 368-373: result[1] if result else 0.0, and 0.0 from the except
\* branch; the coverage is in tenths of a percent
LocalMaxCov(e) ==
    IF Raises(e) THEN 0
    ELSE IF Seen(e) THEN 1
    ELSE 0

CoverageAlways(c) == TRUE

\* line 385: if c and c > 0.0
CoverageCounts(c) == c # 0 /\ c > 0

NeverEnough(found, n) == FALSE

\* line 387: if len(visible) >= self.num_events
Enough(found, n) == Len(found) >= n

ReleaseOnSuccess(p, raised) == IF raised THEN p ELSE p + 1

\* line 367: leaving async with self._sf_semaphore, by return or by exception
Release(p, raised) == p + 1

\* lines 362-378: the branch is entered; visible = [], the loop is to begin
BeginBatches ==
    /\ pc = "select"
    /\ install_skyfield /\ SKYFIELD_AVAILABLE /\ ephemeris # None
    /\ pc' = "batch"
    /\ future' = FutureOf(nasa_events, clock)
    /\ start_idx' = 0
    /\ visible' = <<>>
    /\ started' = {}
    /\ UNCHANGED <<coverages, acquired, holding, permits>>
    /\ UNCHANGED <<clock, config, ephemeris, cache, data, fetch, parsed, nasa_events,
                   tier, prev_tier, outcome, refreshes, idled, last_done, status_seen>>
    /\ UNCHANGED <<resolver, searcher>>

\* lines 379-383 and 389: the next value of start_idx, or the end of the loop;
\* gather makes one local_max_cov for every event of the batch
NextBatch ==
    /\ pc = "batch"
    /\ IF start_idx >= Len(future)
       THEN /\ Return(Take(visible, num_events))
            /\ UNCHANGED evaluator
       ELSE /\ pc' = "gather"
            /\ coverages' = [i \in 1..Len(BatchOf(future, start_idx)) |-> None]
            /\ acquired' = 0
            /\ UNCHANGED <<future, start_idx, visible, holding, permits, started>>
            /\ UNCHANGED <<clock, config, ephemeris, cache, data, fetch, parsed,
                           nasa_events, tier, prev_tier, outcome, refreshes, idled,
                           last_done, status_seen>>
    /\ UNCHANGED <<resolver, searcher>>

\* line 367: the next local_max_cov of the batch enters the semaphore; the
\* ones behind it wait in the order gather made them
Acquire ==
    /\ pc = "gather"
    /\ acquired < Len(coverages)
    /\ permits > 0
    /\ acquired' = acquired + 1
    /\ holding' = holding \cup {acquired + 1}
    /\ permits' = permits - 1
    /\ started' = started \cup {start_idx + acquired + 1}
    /\ UNCHANGED <<future, start_idx, visible, coverages>>
    /\ UNCHANGED <<clock, config, ephemeris, cache, data, pc, fetch, parsed,
                   nasa_events, tier, prev_tier, outcome, refreshes, idled, last_done,
                   status_seen>>
    /\ UNCHANGED <<resolver, searcher>>

\* lines 368-373: the local_max_cov at position i of the batch ends, with a
\* coverage or in the except branch, and leaves the semaphore
Evaluate(i) ==
    /\ pc = "gather"
    /\ i \in holding
    /\ coverages' = [coverages EXCEPT ![i] = Some(LocalMaxCov(future[start_idx + i]))]
    /\ holding' = holding \ {i}
    /\ permits' = Release(permits, Raises(future[start_idx + i]))
    /\ UNCHANGED <<future, start_idx, visible, acquired, started>>
    /\ UNCHANGED <<clock, config, ephemeris, cache, data, pc, fetch, parsed,
                   nasa_events, tier, prev_tier, outcome, refreshes, idled, last_done,
                   status_seen>>
    /\ UNCHANGED <<resolver, searcher>>

\* lines 384-386: visible after the loop over zip(batch, coverages), had it
\* run to its end
Merged(found, batch, covs) ==
    found \o [k \in 1..Cardinality({i \in 1..Len(batch) : CoverageCounts(covs[i][1])}) |->
                 batch[CHOOSE i \in 1..Len(batch) :
                         /\ CoverageCounts(covs[i][1])
                         /\ Cardinality({j \in 1..i : CoverageCounts(covs[j][1])}) = k]]

\* lines 383-388: gather returns once every local_max_cov has ended; the
\* events of positive coverage are appended, and the refresh returns when
\* there are num_events of them
Merge ==
    /\ pc = "gather"
    /\ \A i \in 1..Len(coverages) : coverages[i] # None
    /\ visible' = Merged(visible, BatchOf(future, start_idx), coverages)
    /\ IF Enough(visible', num_events)
       THEN /\ Return(Take(visible', num_events))
            /\ UNCHANGED start_idx
       ELSE /\ pc' = "batch"
            /\ start_idx' = start_idx + BatchSize
            /\ UNCHANGED <<clock, config, ephemeris, cache, data, fetch, parsed,
                           nasa_events, tier, prev_tier, outcome, refreshes, idled,
                           last_done, status_seen>>
    /\ UNCHANGED <<future, coverages, acquired, holding, permits, started>>
    /\ UNCHANGED <<resolver, searcher>>

(***************************************************************************)
(* The regional resolver and the region branch: lines 306-335, 391-402     *)
(***************************************************************************)
\* JSEX_REGION_LABELS of const.py
JSEX_REGION_LABELS ==
         ("Europe" :> <<"E", "u", "r", "o", "p", "e">>)
      @@ ("Africa" :> <<"A", "f", "r", "i", "c", "a">>)
      @@ ("Asia" :> <<"A", "s", "i", "a", " ", "a", "n", "d", " ", "A", "s", "i",
                "a", " ", "M", "i", "n", "o", "r">>)
      @@ ("North America" :> <<"N", "o", "r", "t", "h", " ", "A", "m", "e", "r", "i", "c", "a">>)
      @@ ("South America" :> <<"S", "o", "u", "t", "h", " ", "A", "m", "e", "r", "i", "c", "a">>)
      @@ ("Oceania" :> <<"S", "o", "u", "t", "h", "e", "a", "s", "t", " ", "A", "s",
                "i", "a", ",", " ", "A", "u", "s", "t", "r", "a", "l", "i",
                "a", " ", "&", " ", "O", "c", "e", "a", "n", "a">>)

\* base of line 321: https://eclipse.gsfc.nasa.gov/JSEX/
JsexBase ==
    <<"h", "t", "t", "p", "s", ":", "/", "/", "e", "c", "l", "i", "p",
      "s", "e", ".", "g", "s", "f", "c", ".", "n", "a", "s", "a", ".",
      "g", "o", "v", "/", "J", "S", "E", "X", "/">>

\* the first position from p on that holds the character c, 0 for none
FirstOf(t, p, c) == MinOrZero({i \in p..Len(t) : t[i] = c})

\* <a[^>]+href="([^"]+)"[^>]*>\s*label\s*< with the <a at position s and the
\* href at position h, ignoring case; label is given in lower case
LinkAt(t, s, h, label) ==
    /\ WordAt(t, s, <<"<", "a">>)
    /\ h >= s + 3
    /\ \A i \in (s + 2)..(h - 1) : t[i] # ">"
    /\ WordAt(t, h, <<"h", "r", "e", "f", "=", "\"">>)
    /\ LET q == FirstOf(t, h + 6, "\"")
           g == FirstOf(t, q + 1, ">")
           p == SkipSpaces(t, g + 1)
           r == SkipSpaces(t, p + Len(label))
       IN  /\ q > h + 6
           /\ g > q
           /\ WordAt(t, p, label)
           /\ r <= Len(t)
           /\ t[r] = "<"

\* re.search of the link pattern, and m.group(1): the leftmost <a, and for it
\* the last href the greedy [^>]+ reaches; None without a match
LinkSearch(t, label) ==
    LET S == {s \in 1..Len(t) : \E h \in s..Len(t) : LinkAt(t, s, h, label)}
    IN  IF S = {} THEN None
        ELSE LET s == MinOf(S)
                 h == CHOOSE x \in s..Len(t) :
                          /\ LinkAt(t, s, x, label)
                          /\ \A y \in (x + 1)..Len(t) : ~LinkAt(t, s, y, label)
             IN  Some(SubSeq(t, h + 6, FirstOf(t, h + 6, "\"") - 1))

\* href.lstrip("./")
LStrip(t) ==
    LET S == {i \in 1..Len(t) : t[i] \notin {".", "/"}}
    IN  IF S = {} THEN <<>> ELSE SubSeq(t, MinOf(S), Len(t))

\* lines 319-323: the url of the region page
UrlOf(href) ==
    IF ~ExactAt(href, 1, <<"h", "t", "t", "p">>) THEN JsexBase \o LStrip(href)
    ELSE href

\* a\s+b\s+c at position p of t, ignoring case; a, b and c in lower case
SpacedAt(t, p, a, b, c) ==
    LET p2 == SkipSpaces(t, p + Len(a))
        p3 == SkipSpaces(t, p2 + Len(b))
    IN  /\ WordAt(t, p, a)
        /\ p2 > p + Len(a)
        /\ WordAt(t, p2, b)
        /\ p3 > p2 + Len(b)
        /\ WordAt(t, p3, c)

\* lines 327-335: bool(p1.search(region_text) or p2.search(region_text)) for
\* the parts y, mth and d of the identifier
DateSearch(t, parts) ==
    LET y       == parts[1]
        mon_txt == LowerText(MonthNames[IntOf(parts[2])])
        day     == FormatInt(IntOf(parts[3]), 1)
    IN  \E p \in 1..Len(t) : SpacedAt(t, p, y, mon_txt, day) \/ SpacedAt(t, p, day, mon_txt, y)

MissingNone(opt) == opt = None

\* not index_text, not region_text
Missing(opt) == opt = None \/ opt[1] = <<>>

Unfiltered(evs, flags) == evs

\* line 394: [e for e, ok in zip(future, vis_flags) if ok]
RegionVisible(evs, flags) ==
    LET S == {i \in 1..Len(evs) : flags[i]}
    IN  [k \in 1..Cardinality(S) |->
            evs[CHOOSE i \in S : Cardinality({j \in S : j <= i}) = k]]

\* an index page with a link to the page of Europe and one to the page of Asia
\* <a href="./JSEX-EU.html">Europe</a><A class="r"
\* HREF="https://eclipse.gsfc.nasa.gov/JSEX/JSEX-AS.html" > Asia and Asia Minor </A>
IndexLinks ==
    <<"<", "a", " ", "h", "r", "e", "f", "=", "\"", ".", "/", "J", "S",
      "E", "X", "-", "E", "U", ".", "h", "t", "m", "l", "\"", ">", "E",
      "u", "r", "o", "p", "e", "<", "/", "a", ">", "<", "A", " ", "c",
      "l", "a", "s", "s", "=", "\"", "r", "\"", " ", "H", "R", "E", "F",
      "=", "\"", "h", "t", "t", "p", "s", ":", "/", "/", "e", "c", "l",
      "i", "p", "s", "e", ".", "g", "s", "f", "c", ".", "n", "a", "s",
      "a", ".", "g", "o", "v", "/", "J", "S", "E", "X", "/", "J", "S",
      "E", "X", "-", "A", "S", ".", "h", "t", "m", "l", "\"", " ", ">",
      " ", "A", "s", "i", "a", " ", "a", "n", "d", " ", "A", "s", "i",
      "a", " ", "M", "i", "n", "o", "r", " ", "<", "/", "A", ">">>

\* an index page that names the regions and links to none of them
\* <b>Europe</b> <a name="x">Asia and Asia Minor <
IndexPlain ==
    <<"<", "b", ">", "E", "u", "r", "o", "p", "e", "<", "/", "b", ">",
      " ", "<", "a", " ", "n", "a", "m", "e", "=", "\"", "x", "\"", ">",
      "A", "s", "i", "a", " ", "a", "n", "d", " ", "A", "s", "i", "a",
      " ", "M", "i", "n", "o", "r", " ", "<">>

\* what _async_fetch_text may return for JSEX_INDEX_URL
IndexAnswers == {None, Some(<<>>), Some(IndexLinks), Some(IndexPlain)}

\* a region page that lists 2026-02-17 and 2027-08-02
\* <td>2026 FEB  17</td><td>2 Aug 2027</td>
RegionPageListing ==
    <<"<", "t", "d", ">", "2", "0", "2", "6", " ", "F", "E", "B", " ",
      " ", "1", "7", "<", "/", "t", "d", ">", "<", "t", "d", ">", "2",
      " ", "A", "u", "g", " ", "2", "0", "2", "7", "<", "/", "t", "d", ">">>

\* a region page that lists neither of the events of the catalogs
\* <td>2026 Aug 1</td><td>2027 Aug</td>
RegionPageOther ==
    <<"<", "t", "d", ">", "2", "0", "2", "6", " ", "A", "u", "g", " ",
      "1", "<", "/", "t", "d", ">", "<", "t", "d", ">", "2", "0", "2",
      "7", " ", "A", "u", "g", "<", "/", "t", "d", ">">>

\* a region page that lists 2027-08-21 and 2027-08-12 only
\* <td>2027 Aug 21</td><td>12 Aug 2027</td>
RegionPageNear ==
    <<"<", "t", "d", ">", "2", "0", "2", "7", " ", "A", "u", "g", " ",
      "2", "1", "<", "/", "t", "d", ">", "<", "t", "d", ">", "1", "2",
      " ", "A", "u", "g", " ", "2", "0", "2", "7", "<", "/", "t", "d", ">">>

\* the urls of the two region pages the servers have
RegionUrls ==
    {JsexBase \o <<"J", "S", "E", "X", "-", "E", "U", ".", "h", "t", "m", "l">>,
     JsexBase \o <<"J", "S", "E", "X", "-", "A", "S", ".", "h", "t", "m", "l">>}

\* what _async_fetch_text may return for the url u
Serve(u) ==
    IF u \in RegionUrls
    THEN {None, Some(<<>>), Some(RegionPageListing), Some(RegionPageOther),
          Some(RegionPageNear)}
    ELSE {None}

\* line 358-360 and 391: the events after now; without one, return []
BeginLookups ==
    /\ pc = "select"
    /\ ~(install_skyfield /\ SKYFIELD_AVAILABLE /\ ephemeris # None)
    /\ future' = FutureOf(nasa_events, clock)
    /\ IF future' = <<>>
       THEN /\ Return(<<>>)
            /\ UNCHANGED lookup
       ELSE /\ pc' = "lookup"
            /\ lookup' = 1
            /\ UNCHANGED <<clock, config, ephemeris, cache, data, fetch, parsed,
                           nasa_events, tier, prev_tier, outcome, refreshes, idled,
                           last_done, status_seen>>
    /\ vis_flags' = <<>>
    /\ answers' = <<>>
    /\ UNCHANGED <<index_text, url, region_text>>
    /\ UNCHANGED <<start_idx, visible, coverages, acquired, holding, permits, started>>
    /\ UNCHANGED searcher

\* _async_visible_in_region returns ok for the event at lookup; failed tells
\* whether one of its fetches gave no text
Answer(ok, failed) ==
    /\ vis_flags' = Append(vis_flags, ok)
    /\ answers' = Append(answers, failed)
    /\ lookup' = lookup + 1
    /\ pc' = "lookup"
    /\ index_text' = None
    /\ url' = None
    /\ region_text' = None

\* lines 307-309: Global is visible; else the index page is fetched
StartLookup(body) ==
    /\ pc = "lookup"
    /\ lookup <= Len(future)
    /\ IF region = "Global"
       THEN Answer(TRUE, FALSE)
       ELSE /\ pc' = "index"
            /\ index_text' = body
            /\ UNCHANGED <<lookup, url, region_text, vis_flags, answers>>
    /\ UNCHANGED <<clock, config, ephemeris, cache, data, fetch, parsed, nasa_events,
                   tier, prev_tier, outcome, refreshes, idled, last_done, status_seen>>
    /\ UNCHANGED <<evaluator, searcher>>

\* lines 310-323: no index text, no label or no link is visible; else the url
FindLink ==
    /\ pc = "index"
    /\ IF Missing(index_text) THEN Answer(TRUE, index_text = None)
       ELSE IF region \notin DOMAIN JSEX_REGION_LABELS THEN Answer(TRUE, FALSE)
       ELSE LET m == LinkSearch(index_text[1], LowerText(JSEX_REGION_LABELS[region]))
            IN  IF m = None THEN Answer(TRUE, FALSE)
                ELSE /\ pc' = "page"
                     /\ url' = Some(UrlOf(m[1]))
                     /\ UNCHANGED <<lookup, index_text, region_text, vis_flags,
                                    answers>>
    /\ UNCHANGED <<clock, config, ephemeris, cache, data, fetch, parsed, nasa_events,
                   tier, prev_tier, outcome, refreshes, idled, last_done, status_seen>>
    /\ UNCHANGED <<evaluator, searcher>>

\* line 324: the region page is fetched
FetchRegion ==
    /\ pc = "page"
    /\ pc' = "dates"
    /\ region_text' \in Serve(url[1])
    /\ UNCHANGED <<lookup, index_text, url, vis_flags, answers>>
    /\ UNCHANGED <<clock, config, ephemeris, cache, data, fetch, parsed, nasa_events,
                   tier, prev_tier, outcome, refreshes, idled, last_done, status_seen>>
    /\ UNCHANGED <<evaluator, searcher>>

\* lines 325-335: no region text is visible; else whether the date is found
FindDate ==
    /\ pc = "dates"
    /\ IF Missing(region_text) THEN Answer(TRUE, region_text = None)
       ELSE Answer(DateSearch(region_text[1], SplitOn(future[lookup].identifier, "-")),
                   FALSE)
    /\ UNCHANGED <<clock, config, ephemeris, cache, data, fetch, parsed, nasa_events,
                   tier, prev_tier, outcome, refreshes, idled, last_done, status_seen>>
    /\ UNCHANGED <<evaluator, searcher>>

\* lines 393-398: gather has every flag; the events that pass, or the first
\* future events when none passes
Filter ==
    /\ pc = "lookup"
    /\ lookup > Len(future)
    /\ LET region_visible == RegionVisible(future, vis_flags)
       IN  IF region_visible # <<>>
           THEN Return(Take(region_visible, num_events))
           ELSE Return(Take(future, num_events))
    /\ UNCHANGED <<evaluator, resolver, searcher>>

(***************************************************************************)
(* The overlap of the two discs and the searches: lines 404-525            *)
(***************************************************************************)
\* sun_radius_rad, 16.0 arc minutes, in tenths of an arc minute
SunRadius == 160

\* moon_radius_rad, 15.5 arc minutes, in tenths of an arc minute
MoonRadius == 155

\* 100.0 * area / (3.1415926535 * R ** 2) of lines 421-431 and 497-507, in
\* units of 0.0001 percent: the value the source's formula takes for a
\* separation of d tenths of an arc minute, d = 0 at the head; up to the
\* difference of the radii it is the disc of the Moon, then the lens
OverlapTable ==
    <<
      938476, 938476, 938476, 938476, 938476, 938476, 936956, 934470, 931558, 928395,
      925069, 921628, 918104, 914517, 910883, 907211, 903508, 899781, 896033, 892269,
      888491, 884700, 880900, 877091, 873275, 869452, 865624, 861791, 857955, 854114,
      850271, 846426, 842578, 838729, 834878, 831026, 827173, 823319, 819465, 815611,
      811756, 807902, 804048, 800194, 796340, 792487, 788635, 784784, 780933, 777084,
      773236, 769389, 765543, 761699, 757856, 754014, 750175, 746337, 742500, 738666,
      734833, 731003, 727174, 723347, 719523, 715701, 711881, 708063, 704248, 700435,
      696625, 692817, 689012, 685210, 681410, 677613, 673819, 670027, 666239, 662454,
      658671, 654892, 651116, 647343, 643573, 639806, 636043, 632283, 628527, 624774,
      621024, 617279, 613536, 609798, 606063, 602332, 598605, 594881, 591162, 587446,
      583735, 580027, 576324, 572625, 568930, 565239, 561553, 557871, 554194, 550520,
      546852, 543188, 539528, 535874, 532223, 528578, 524938, 521302, 517671, 514046,
      510425, 506809, 503199, 499593, 495993, 492398, 488809, 485224, 481646, 478072,
      474505, 470942, 467386, 463835, 460290, 456751, 453217, 449690, 446168, 442653,
      439143, 435640, 432143, 428652, 425168, 421689, 418218, 414752, 411293, 407841,
      404396, 400957, 397525, 394100, 390681, 387270, 383865, 380468, 377078, 373695,
      370319, 366950, 363589, 360235, 356889, 353551, 350220, 346896, 343581, 340273,
      336973, 333681, 330397, 327121, 323854, 320594, 317343, 314100, 310866, 307640,
      304422, 301214, 298014, 294823, 291640, 288467, 285303, 282147, 279001, 275864,
      272737, 269618, 266510, 263410, 260321, 257241, 254171, 251111, 248061, 245020,
      241990, 238970, 235961, 232961, 229973, 226995, 224027, 221070, 218124, 215189,
      212265, 209352, 206450, 203560, 200681, 197813, 194957, 192113, 189281, 186460,
      183652, 180855, 178071, 175300, 172540, 169793, 167059, 164338, 161630, 158934,
      156252, 153583, 150928, 148286, 145658, 143043, 140442, 137856, 135283, 132725,
      130182, 127653, 125139, 122640, 120155, 117686, 115233, 112795, 110373, 107966,
      105576, 103201, 100844, 98502, 96178, 93870, 91580, 89307, 87051, 84814,
      82594, 80392, 78209, 76044, 73898, 71772, 69664, 67577, 65509, 63461,
      61434, 59427, 57441, 55477, 53534, 51613, 49715, 47838, 45985, 44156,
      42350, 40568, 38810, 37078, 35371, 33690, 32035, 30408, 28807, 27235,
      25692, 24177, 22693, 21240, 19818, 18428, 17072, 15750, 14462, 13212,
      11998, 10824, 9690, 8598, 7549, 6547, 5592, 4689, 3839, 3048,
      2320, 1661, 1079, 587, 207, 0
    >>

\* the percentage of the Sun's disc that is covered at separation d, not
\* rounded: 0.0 from the sum of the radii on
Overlap(d) ==
    IF d >= SunRadius + MoonRadius THEN 0 ELSE OverlapTable[d + 1]

\* round(x, 1): from units of 0.0001 percent to tenths of a percent
RoundTenths(x) == (x + 500) \div 1000

\* timedelta(hours=3), in seconds
Window == 10800

\* timedelta(minutes=5)
Step == 300

\* timedelta(minutes=10)
RefineWindow == 600

\* timedelta(minutes=1)
RefineStep == 60

\* timedelta(minutes=2) of async_find_contact_times
ContactStep == 120

\* timedelta(hours=4) of async_find_contact_times
ContactLimit == 14400

\* the 0.1 of coverage(t) > 0.1, in units of 0.0001 percent
ContactThreshold == 1000

\* separation(dt) of line 442: what the ephemeris alm gives for the instant
\* dt, in tenths of an arc minute; alm falls by alm.fall a minute down to
\* alm.floor at the instant alm.m and rises by alm.rise a minute after it
Separation(alm, dt) ==
    IF dt <= alm.m
    THEN alm.floor + alm.fall * ((alm.m - dt) \div 60)
    ELSE alm.floor + alm.rise * ((dt - alm.m) \div 60)

\* the guard of lines 405, 434 and 478, negated
EphemerisWanted(inst, avail, eph) == inst /\ avail

EphemerisReady(inst, avail, eph) == inst /\ avail /\ eph # None

\* async_calculate_coverage_percent with the guard's value ready: None, or
\* the rounded percentage in tenths of a percent
CalculateCoveragePercent(ready, alm, when) ==
    IF ~ready THEN None ELSE Some(RoundTenths(Overlap(Separation(alm, when))))

\* int((end - start) / step) + 1, for end - start twice the window
NumPoints(window, step) == (2 * window) \div step + 1

\* the instants dt = start + i * step of a loop over range(num)
ScanPoints(start, step, num) == {start + i * step : i \in 0..(num - 1)}

\* the least separation the ephemeris gives on the instants pts
LeastOn(alm, pts) == MinOf({Separation(alm, dt) : dt \in pts})

\* the loops of lines 455-460 and 466-471 over the instants pts, whose least
\* separation is least: if sep < best_sep replaces the best by the first
\* instant of a smaller separation each time, so by the first of the least
ScanResult(alm, pts, least, best) ==
    IF least < best.sep
    THEN [dt |-> MinOf({dt \in pts : Separation(alm, dt) = least}), sep |-> least]
    ELSE best

Scan(alm, pts, best) == ScanResult(alm, pts, LeastOn(alm, pts), best)

\* no scan of the six hours: the best is approx_when
NoCoarse(alm, approx) == [dt |-> approx, sep |-> Separation(alm, approx)]

\* lines 448-460: the scan of six hours in steps of five minutes
CoarseScan(alm, approx) ==
    Scan(alm, ScanPoints(approx - Window, Step, NumPoints(Window, Step)),
         [dt |-> approx, sep |-> Separation(alm, approx)])

\* lines 461-471: the scan of twenty minutes around the coarse minimum
NoRefine(alm, coarse) == coarse

RefineScan(alm, coarse) ==
    Scan(alm, ScanPoints(coarse.dt - RefineWindow, RefineStep,
                         NumPoints(RefineWindow, RefineStep)),
         coarse)

\* lines 472-475, for the refined minimum best
LocalMaximumAt(alm, best) ==
    Some([dt |-> best.dt,
          coverage |-> RoundTenths(Overlap(Separation(alm, best.dt)))])

\* async_find_local_maximum: None, or the instant and its coverage
FindLocalMaximum(ready, alm, approx) ==
    IF ~ready THEN None
    ELSE LocalMaximumAt(alm, RefineScan(alm, CoarseScan(alm, approx)))

\* coverage(t) > 0.1 of lines 515 and 522
Covered(alm, t) == Overlap(Separation(alm, t)) > ContactThreshold

\* how many times the body of a loop of at most n turns runs, when its k-th
\* test holds exactly for k in passing
Turns(n, passing) ==
    Cardinality({k \in 1..n : \A j \in 1..k : j \in passing})

\* the backward search with the test t >= limit
SearchBackwardToLimit(alm, max_time) ==
    LET n == ContactLimit \div ContactStep + 1
        turns == Turns(n, {k \in 1..n : Covered(alm, max_time - (k - 1) * ContactStep)})
    IN  IF turns = 0 THEN max_time ELSE max_time - (turns - 1) * ContactStep

\* lines 511-517: while t > limit and coverage(t) > 0.1: start = t; t -= step
SearchBackward(alm, max_time) ==
    LET n == ContactLimit \div ContactStep
        turns == Turns(n, {k \in 1..n : Covered(alm, max_time - (k - 1) * ContactStep)})
    IN  IF turns = 0 THEN max_time ELSE max_time - (turns - 1) * ContactStep

\* lines 519-524: while t < limit and coverage(t) > 0.1: end = t; t += step
SearchForward(alm, max_time) ==
    LET n == ContactLimit \div ContactStep
        turns == Turns(n, {k \in 1..n : Covered(alm, max_time + (k - 1) * ContactStep)})
    IN  IF turns = 0 THEN max_time ELSE max_time + (turns - 1) * ContactStep

\* if not local or local[1] <= 0.0
LowCoverage(local) == local = None \/ local[1].coverage <= 1

NoCoverage(local) == local = None \/ local[1].coverage <= 0

\* lines 482-525, for the local maximum local
ContactTimesOf(alm, local) ==
    IF NoCoverage(local) THEN None
    ELSE Some([start |-> SearchBackward(alm, local[1].dt),
               end |-> SearchForward(alm, local[1].dt)])

\* async_find_contact_times: None, or the first and the last instant
FindContactTimes(ready, alm, approx) ==
    IF ~ready THEN None
    ELSE ContactTimesOf(alm, FindLocalMaximum(ready, alm, approx))

\* a sensor calls async_calculate_coverage_percent for the date of an event
CallCoverage ==
    /\ pc = "idle"
    /\ called' = "async_calculate_coverage_percent"
    /\ result' = CalculateCoveragePercent(
                     EphemerisReady(install_skyfield, SKYFIELD_AVAILABLE, ephemeris),
                     almanac, approx_when)
    /\ observed' = (observed \/ result' # None)
    /\ UNCHANGED <<clock, config, ephemeris, cache, data, pc, fetch, parsed,
                   nasa_events, tier, prev_tier, outcome, refreshes, idled,
                   last_done, status_seen, evaluator, resolver, almanac,
                   approx_when, entity>>

\* a sensor calls async_find_local_maximum
CallLocalMaximum ==
    /\ pc = "idle"
    /\ called' = "async_find_local_maximum"
    /\ result' = FindLocalMaximum(
                     EphemerisReady(install_skyfield, SKYFIELD_AVAILABLE, ephemeris),
                     almanac, approx_when)
    /\ observed' = (observed \/ result' # None)
    /\ UNCHANGED <<clock, config, ephemeris, cache, data, pc, fetch, parsed,
                   nasa_events, tier, prev_tier, outcome, refreshes, idled,
                   last_done, status_seen, evaluator, resolver, almanac,
                   approx_when, entity>>

\* a sensor calls async_find_contact_times
CallContactTimes ==
    /\ pc = "idle"
    /\ called' = "async_find_contact_times"
    /\ result' = FindContactTimes(
                     EphemerisReady(install_skyfield, SKYFIELD_AVAILABLE, ephemeris),
                     almanac, approx_when)
    /\ observed' =
           (observed \/ EphemerisReady(install_skyfield, SKYFIELD_AVAILABLE, ephemeris))
    /\ UNCHANGED <<clock, config, ephemeris, cache, data, pc, fetch, parsed,
                   nasa_events, tier, prev_tier, outcome, refreshes, idled,
                   last_done, status_seen, evaluator, resolver, almanac,
                   approx_when, entity>>

(***************************************************************************)
(* The entity of one event: EclipseAggregateSensor, lines 619-815          *)
(***************************************************************************)
\* _event of the entity of index 0, for coordinator.data = d
EventOf(d) == IF d # None /\ Len(d[1]) > 0 THEN Some(d[1][1]) ELSE None

\* the cached attributes with none of them known: lines 635-639; the duration
\* follows from the start and the end
Unknown ==
    [coverage |-> None, local_max_time |-> None, local_max_coverage |-> None,
     start_local |-> None, end_local |-> None]

\* datetime.now(timezone.utc).date(), in days since 2000-01-01
Today(now) == now \div 86400

\* lines 789-812: the attributes the three calls give for event e
Computed(ready, alm, e) ==
    LET cov_now  == CalculateCoveragePercent(ready, alm, e.date)
        local    == FindLocalMaximum(ready, alm, e.date)
        contacts == FindContactTimes(ready, alm, e.date)
    IN  [coverage |-> cov_now,
         local_max_time |-> IF local # None THEN Some(local[1].dt) ELSE None,
         local_max_coverage |->
             IF local # None THEN Some(local[1].coverage) ELSE None,
         start_local |-> IF contacts # None THEN Some(contacts[1].start) ELSE None,
         end_local |-> IF contacts # None THEN Some(contacts[1].end) ELSE None]

\* fmt_time of lines 675-681: None for no instant, else HH:MM as the minute
\* of the day, the time zone of the host being UTC
FmtTime(dt_val) == IF dt_val = None THEN None ELSE Some((dt_val[1] \div 60) % 1440)

\* attrs.get("maximum_time") of extra_state_attributes, lines 672-693, for
\* coordinator.data = d and self._cached_local_max_time = cached_time
MaximumTime(d, inst, avail, cached_time) ==
    IF EventOf(d) = None THEN None
    ELSE FmtTime(IF inst /\ avail THEN cached_time ELSE Some(EventOf(d)[1].date))

\* __init__ of the entity, lines 635-645, and its listener and timer not
\* yet called
InitSensor ==
    /\ cached_values = Unknown
    /\ last_recompute_day = None
    /\ last_event_identifier = None
    /\ recomputed = "none"
    /\ faulted = FALSE
    /\ handled = 0
    /\ timer_day = None
    /\ searches = <<>>
    /\ platform = "none"
    /\ is_on = None

\* lines 765-773 and 776-784: the attributes are cleared and the day and the
\* identifier are kept
Cleared(today, id) ==
    /\ cached_values' = Unknown
    /\ last_recompute_day' = Some(today)
    /\ last_event_identifier' = id
    /\ recomputed' = "cleared"
    /\ faulted' = FALSE
    /\ searches' = <<>>

\* _recompute, lines 753-815; fault: the ephemeris raises in the first of
\* the calls of lines 789-791. The search of line 790 and the one
\* async_find_contact_times makes at line 481 are entered with the semaphore
\* at the value it has
Recompute(fault) ==
    LET event      == EventOf(data)
        today      == Today(clock)
        current_id == IF event # None THEN Some(event[1].identifier) ELSE None
        ready      == EphemerisReady(install_skyfield, SKYFIELD_AVAILABLE, ephemeris)
    IN  IF /\ install_skyfield /\ SKYFIELD_AVAILABLE
           /\ last_recompute_day = Some(today)
           /\ last_event_identifier = current_id
        THEN /\ recomputed' = "throttled"
             /\ faulted' = FALSE
             /\ searches' = <<>>
             /\ UNCHANGED <<cached_values, last_recompute_day, last_event_identifier>>
        ELSE IF event = None THEN Cleared(today, None)
        ELSE IF ~ready THEN Cleared(today, current_id)
        ELSE IF fault
        THEN /\ recomputed' = "raised"
             /\ faulted' = TRUE
             /\ searches' = <<>>
             /\ UNCHANGED <<cached_values, last_recompute_day, last_event_identifier>>
        ELSE /\ cached_values' = Computed(ready, almanac, event[1])
             /\ last_recompute_day' = Some(today)
             /\ last_event_identifier' = current_id
             /\ recomputed' = "computed"
             /\ faulted' = FALSE
             /\ searches' = <<[caller |-> "_recompute", permits |-> permits],
                              [caller |-> "async_find_contact_times",
                               permits |-> permits]>>

\* _handle_coordinator_update, lines 735-745: the listener of the refresh
\* that has just returned; with the ephemeris it makes the task of a
\* _recompute
HandleCoordinatorUpdate(fault) ==
    /\ pc = "idle"
    /\ outcome = "returned"
    /\ handled < refreshes
    /\ handled' = refreshes
    /\ IF EphemerisReady(install_skyfield, SKYFIELD_AVAILABLE, ephemeris)
       THEN Recompute(fault)
       ELSE UNCHANGED <<cached_values, last_recompute_day, last_event_identifier,
                        recomputed, faulted, searches>>
    /\ UNCHANGED <<timer_day, platform, is_on>>
    /\ UNCHANGED <<clock, config, ephemeris, cache, data, pc, fetch, parsed,
                   nasa_events, tier, prev_tier, outcome, refreshes, idled,
                   last_done, status_seen, evaluator, resolver, almanac,
                   approx_when, called, result, observed>>

\* lines 731-733: the timer fires, once a day at the configured hour of the
\* local time, and makes the task of a _recompute
DailyRecompute(fault) ==
    /\ pc = "idle"
    /\ handled = refreshes
    /\ timer_day # Some(Today(clock))
    /\ timer_day' = Some(Today(clock))
    /\ Recompute(fault)
    /\ UNCHANGED <<handled, platform, is_on>>
    /\ UNCHANGED <<clock, config, ephemeris, cache, data, pc, fetch, parsed,
                   nasa_events, tier, prev_tier, outcome, refreshes, idled,
                   last_done, status_seen, evaluator, resolver, almanac,
                   approx_when, called, result, observed>>

(***************************************************************************)
(* The binary sensor: binary_sensor.py                                     *)
(***************************************************************************)
\* the parameters of EclipseCoordinator.__init__ after self: hass,
\* install_skyfield, latitude, longitude, region, num_events
InitParameters == 6

\* the arguments of the call of binary_sensor.py line 24: the same and
\* min_coverage
SetupArguments == 7

\* a call with more positional arguments than the function has parameters
\* raises TypeError
CallRaises(given, taken) == given > taken

\* lines 72-76 of binary_sensor.py: any(e.date <= within_week for e in data
\* if e.date >= now), for coordinator.data = d
WithinWeek(d, now) ==
    /\ d # None
    /\ \E i \in DOMAIN d[1] : d[1][i].date >= now /\ d[1][i].date <= now + 7 * 86400

\* async_setup_entry of binary_sensor.py, lines 15-29: the coordinator of the
\* platform is constructed, its first refresh is made a task, and the entity
\* is added, whose async_added_to_hass calls _refresh on the data of that
\* coordinator, None so far; or the constructor raises and nothing is added
SetupBinarySensor ==
    /\ platform = "none"
    /\ IF CallRaises(SetupArguments, InitParameters)
       THEN /\ platform' = "raised"
            /\ is_on' = None
       ELSE /\ platform' = "added"
            /\ is_on' = Some(WithinWeek(None, clock))
    /\ UNCHANGED <<cached_values, last_recompute_day, last_event_identifier,
                   recomputed, faulted, handled, timer_day, searches>>
    /\ UNCHANGED <<clock, config, ephemeris, cache, data, pc, fetch, parsed,
                   nasa_events, tier, prev_tier, outcome, refreshes, idled,
                   last_done, status_seen, evaluator, resolver, almanac,
                   approx_when, called, result, observed>>

(***************************************************************************)
(* Specifications                                                          *)
(***************************************************************************)
\* the coordinator after __init__, before the first refresh
InitCoordinator ==
    /\ ephemeris = None
    /\ cache_events = None
    /\ cache_timestamp = None
    /\ data = None
    /\ pc = "idle"
    /\ url_idx = 0
    /\ attempt = 0
    /\ delay = FirstDelay
    /\ requests = 0
    /\ text = None
    /\ missed = 0
    /\ events = <<>>
    /\ parsed = <<>>
    /\ nasa_events = <<>>
    /\ tier = "none"
    /\ prev_tier = "none"
    /\ outcome = "none"
    /\ refreshes = 0
    /\ idled = FALSE
    /\ last_done = clock
    /\ status_seen = [t \in {"live", "cache", "fallback"} |-> None]
    /\ future = <<>>
    /\ start_idx = 0
    /\ visible = <<>>
    /\ coverages = <<>>
    /\ acquired = 0
    /\ holding = {}
    /\ permits = Permits
    /\ started = {}
    /\ lookup = 0
    /\ index_text = None
    /\ url = None
    /\ region_text = None
    /\ vis_flags = <<>>
    /\ answers = <<>>
    /\ called = "none"
    /\ result = None
    /\ observed = FALSE
    /\ InitSensor

\* an ephemeris that never raises, and no sensor that calls the searches
InitSteady ==
    /\ broken = {}
    /\ almanac = None
    /\ approx_when = None

\* the config entries and places a behaviour may begin with: the arguments of
\* __init__, the identifiers of the eclipses seen from the place, and the
\* instant of the setup
EntrySamples ==
    {[install_skyfield |-> FALSE, region |-> "Moon", num_events |-> 3,
      sky |-> {},
      start |-> Instant(2026, 1, 1, 0, 0)],
     [install_skyfield |-> FALSE, region |-> "Europe", num_events |-> 12,
      sky |-> {FormatIdentifier(2026, 8, 12), FormatIdentifier(2027, 8, 2)},
      start |-> Instant(2026, 1, 1, 0, 0)],
     [install_skyfield |-> TRUE, region |-> "Global", num_events |-> 0,
      sky |-> {FormatIdentifier(2027, 8, 2)},
      start |-> Instant(2026, 1, 1, 0, 0)]}

\* __init__ with one of the entries
InitEntry ==
    \E c \in EntrySamples :
        /\ clock = c.start
        /\ sky = c.sky
        /\ install_skyfield = c.install_skyfield
        /\ SKYFIELD_AVAILABLE = TRUE
        /\ region = NormalRegion(c.region)
        /\ num_events = ClampEvents(c.num_events)

\* the pages of the servers while the coordinator runs for days
DailyPages == {PageAnnular, PageTwoRows, PageBadDay, PageNoMatch}

Init ==
    /\ InitEntry
    /\ InitSteady
    /\ web = DailyPages
    /\ flaky = FALSE
    /\ InitCoordinator

\* every step of a refresh after its start
RefreshStep ==
    \/ SetupSkyfield
    \/ \E body \in web : RequestOk(body)
    \/ RequestFail
    \/ Backoff
    \/ ScanPage
    \/ Dedup
    \/ ChooseTier
    \/ SelectByEphemeris
    \/ SelectByRegion

Next ==
    \/ StartRefresh
    \/ \E d \in ElapseSteps : Elapse(d)
    \/ RefreshStep

\* refreshes at any time, of servers that are up or down for a whole refresh
Spec == Init /\ [][Next]_vars

\* how late, in seconds, the scheduler may start a refresh that is due
Lateness == {0, 5}

\* the first refresh: async_config_entry_first_refresh
FirstRefresh ==
    /\ refreshes = 0
    /\ StartRefresh

\* the refresh the coordinator schedules update_interval after the end of the
\* one before
ScheduledRefresh(late) ==
    /\ refreshes >= 1
    /\ BeginRefresh
    /\ clock' = last_done + UpdateInterval + late

InitDaily ==
    /\ InitEntry
    /\ InitSteady
    /\ web = DailyPages
    /\ flaky = TRUE
    /\ InitCoordinator

NextDaily ==
    \/ FirstRefresh
    \/ \E late \in Lateness : ScheduledRefresh(late)
    \/ RefreshStep

\* the first refresh and then the refreshes of the daily schedule only
SpecDaily == InitDaily /\ [][NextDaily]_vars

\* the servers answer with the pages of the catalog, or all of them with
\* the same row fragment
InitFetch ==
    /\ InitEntry
    /\ InitSteady
    /\ web \in {CatalogPages} \cup {{p} : p \in FragmentPages}
    /\ flaky = TRUE
    /\ InitCoordinator

NextFetch ==
    \/ FirstRefresh
    \/ RefreshStep

\* one refresh, of servers that may answer any attempt
SpecFetch == InitFetch /\ [][NextFetch]_vars

\* the date of the event the sensors ask about: 2026-08-12 17:00
EventInstant == Instant(2026, 8, 12, 17, 0)

\* how the separation runs near the event: the minute of its minimum, as an
\* offset from the date of the event, the minimum, and how fast it falls and
\* rises, in tenths of an arc minute a minute
MinimumOffsets == {3, 0 - 180, 180, 0 - 7, 48}

MinimumSeparations == {0, 312, 313, 314, 400}

Slopes == {[fall |-> 5, rise |-> 5], [fall |-> 1, rise |-> 9],
           [fall |-> 9, rise |-> 1]}

AlmanacSamples ==
    {[m |-> EventInstant + 60 * o, floor |-> f, fall |-> sl.fall, rise |-> sl.rise] :
        o \in MinimumOffsets, f \in MinimumSeparations, sl \in Slopes}

\* the sensors of one event call the three methods before and after the
\* first refresh, which may load the ephemeris
InitEphem ==
    /\ InitEntry
    /\ broken = {}
    /\ almanac \in AlmanacSamples
    /\ approx_when = EventInstant
    /\ web = {PageNoMatch}
    /\ flaky = FALSE
    /\ InitCoordinator

NextEphem ==
    \/ FirstRefresh
    \/ RefreshStep
    \/ CallCoverage
    \/ CallLocalMaximum
    \/ CallContactTimes

SpecEphem == InitEphem /\ [][NextEphem]_vars

\* the places and the ephemerides of the runs of the entity: the eclipses
\* seen from the place, and the separation near the one the entity shows
SensorSamples ==
    {[sky |-> {FormatIdentifier(2026, 2, 17)},
      almanac |-> [m |-> Instant(2026, 2, 17, 17, 3), floor |-> 0,
                   fall |-> 5, rise |-> 5]],
     [sky |-> {FormatIdentifier(2026, 8, 12)},
      almanac |-> [m |-> EventInstant + 180, floor |-> 100,
                   fall |-> 5, rise |-> 5]],
     [sky |-> {},
      almanac |-> [m |-> EventInstant, floor |-> 400, fall |-> 5, rise |-> 5]]}

\* a coordinator that wants the ephemeris, with the entity of index 0
InitSensors ==
    /\ \E c \in SensorSamples :
           /\ sky = c.sky
           /\ almanac = c.almanac
    /\ clock = Instant(2026, 1, 1, 0, 0)
    /\ install_skyfield = TRUE
    /\ SKYFIELD_AVAILABLE = TRUE
    /\ region = "Global"
    /\ num_events = 1
    /\ broken = {}
    /\ approx_when = EventInstant
    /\ web = {PageNoMatch}
    /\ flaky = FALSE
    /\ InitCoordinator

NextSensors ==
    \/ handled = refreshes /\ StartRefresh
    \/ \E d \in ElapseSteps : handled = refreshes /\ Elapse(d)
    \/ RefreshStep
    \/ \E fault \in BOOLEAN : HandleCoordinatorUpdate(fault)
    \/ \E fault \in BOOLEAN : DailyRecompute(fault)

\* refreshes at any time, each followed by the listener of the entity, and
\* the daily timer of the entity
SpecSensors == InitSensors /\ [][NextSensors]_vars

\* the coordinator is set up on the day of the eclipse of 2026-02-17, seven
\* hours before it, with or without the ephemeris
InitPast ==
    /\ clock = Instant(2026, 2, 17, 10, 0)
    /\ sky = {FormatIdentifier(2026, 2, 17), FormatIdentifier(2027, 8, 2)}
    /\ install_skyfield \in BOOLEAN
    /\ SKYFIELD_AVAILABLE = TRUE
    /\ region \in {"Global", "Europe"}
    /\ num_events = 3
    /\ InitSteady
    /\ web = DailyPages
    /\ flaky = FALSE
    /\ InitCoordinator

\* refreshes before and after the eclipse of the day
SpecPast == InitPast /\ [][Next]_vars

NextBinary ==
    \/ Next
    \/ SetupBinarySensor

\* the same with the setup of the binary sensor platform
SpecBinary == InitPast /\ [][NextBinary]_vars

\* how many full batches the longest catalog of the batch runs holds
Batches == 2

\* the i-th event of a catalog in date order, the events half a year apart,
\* the first of them before the setup
EventNo(i) ==
    EventAt(2025 + (i \div 2), IF i % 2 = 0 THEN 6 ELSE 12, 1, "Total", 12, 0,
            None).event

CatalogOf(k) == [i \in 1..k |-> EventNo(i)]

\* the identifiers of the future events of the catalog at the positions idxs
IdsAt(idxs) == {EventNo(i + 1).identifier : i \in idxs}

\* the places and ephemerides of the batch runs: how many events the catalog
\* has, which future events are seen from the place, for which the ephemeris
\* raises, and the configured number of events
SelectSamples ==
    LET long == Batches * BatchSize + 2
    IN  {[size |-> long, seen |-> {1, 2, 3}, broken |-> {}, num_events |-> 3],
         [size |-> long, seen |-> {2, BatchSize, BatchSize + 1, BatchSize + 5, long - 1},
          broken |-> {BatchSize, BatchSize + 2}, num_events |-> 4],
         [size |-> long, seen |-> {}, broken |-> {1, 2, 3, 4}, num_events |-> 1],
         [size |-> long, seen |-> 1..(long - 1), broken |-> 1..BatchSize,
          num_events |-> 2],
         [size |-> BatchSize + 2, seen |-> 1..12, broken |-> {5}, num_events |-> 12],
         [size |-> BatchSize + 2, seen |-> {BatchSize + 1}, broken |-> {},
          num_events |-> 10],
         [size |-> 4, seen |-> {1, 3}, broken |-> {3}, num_events |-> 3],
         [size |-> 1, seen |-> {}, broken |-> {}, num_events |-> 3]}

\* a first refresh that has loaded the ephemeris and has taken a live catalog
\* from the servers, before line 358
InitSelect ==
    \E c \in SelectSamples :
        /\ clock = Instant(2026, 1, 1, 0, 0)
        /\ sky = IdsAt(c.seen)
        /\ broken = IdsAt(c.broken)
        /\ install_skyfield = TRUE
        /\ SKYFIELD_AVAILABLE = TRUE
        /\ region = "Global"
        /\ num_events = ClampEvents(c.num_events)
        /\ web = {PageNoMatch}
        /\ flaky = FALSE
        /\ ephemeris = Some("de421")
        /\ cache_events = Some(CatalogOf(c.size))
        /\ cache_timestamp = Some(clock)
        /\ data = None
        /\ pc = "select"
        /\ url_idx = 0
        /\ attempt = 0
        /\ delay = FirstDelay
        /\ requests = 0
        /\ text = None
        /\ missed = 0
        /\ events = <<>>
        /\ parsed = CatalogOf(c.size)
        /\ nasa_events = CatalogOf(c.size)
        /\ tier = "live"
        /\ prev_tier = "none"
        /\ outcome = "none"
        /\ refreshes = 1
        /\ idled = FALSE
        /\ last_done = clock
        /\ status_seen = [t \in {"live", "cache", "fallback"} |-> None]
        /\ future = <<>>
        /\ start_idx = 0
        /\ visible = <<>>
        /\ coverages = <<>>
        /\ acquired = 0
        /\ holding = {}
        /\ permits = Permits
        /\ started = {}
        /\ lookup = 0
        /\ index_text = None
        /\ url = None
        /\ region_text = None
        /\ vis_flags = <<>>
        /\ answers = <<>>
        /\ almanac = None
        /\ approx_when = None
        /\ called = "none"
        /\ result = None
        /\ observed = FALSE
        /\ InitSensor

NextSelect ==
    \/ BeginBatches
    \/ NextBatch
    \/ Acquire
    \/ \E i \in holding : Evaluate(i)
    \/ Merge

\* the ephemeris branch of one refresh, evaluation by evaluation
SpecSelect == InitSelect /\ [][NextSelect]_vars

\* the config entries of the region runs, and the instant of the setup: after
\* 2027-08-02 no event of the catalogs is to come
RegionSamples ==
    {[install_skyfield |-> FALSE, region |-> r, num_events |-> n,
      start |-> Instant(2026, 1, 1, 0, 0)] :
        r \in {"Global", "Europe", "Asia", "Antarctica", "Moon"}, n \in {1, 3}}
    \cup
    {[install_skyfield |-> FALSE, region |-> "Europe", num_events |-> 3,
      start |-> Instant(2028, 1, 1, 0, 0)],
     [install_skyfield |-> TRUE, region |-> "Europe", num_events |-> 3,
      start |-> Instant(2026, 1, 1, 0, 0)]}

InitRegion ==
    /\ \E c \in RegionSamples :
           /\ clock = c.start
           /\ install_skyfield = c.install_skyfield
           /\ region = NormalRegion(c.region)
           /\ num_events = ClampEvents(c.num_events)
    /\ sky = {FormatIdentifier(2027, 8, 2)}
    /\ SKYFIELD_AVAILABLE = TRUE
    /\ InitSteady
    /\ web = {PageTwoRows}
    /\ flaky = FALSE
    /\ InitCoordinator

NextRegion ==
    \/ FirstRefresh
    \/ SetupSkyfield
    \/ \E body \in web : RequestOk(body)
    \/ RequestFail
    \/ Backoff
    \/ ScanPage
    \/ Dedup
    \/ ChooseTier
    \/ SelectByEphemeris
    \/ BeginLookups
    \/ \E body \in IndexAnswers : StartLookup(body)
    \/ FindLink
    \/ FetchRegion
    \/ FindDate
    \/ Filter

\* the first refresh with the region branch lookup by lookup; the servers of
\* the index and of the region pages may answer or fail at every fetch
SpecRegion == InitRegion /\ [][NextRegion]_vars

\* the largest separation of the overlap runs, in tenths of an arc minute
MaxSeparation == 320

\* a sensor asks for the coverage at an instant at which the Sun and the Moon
\* are any separation apart, from none to beyond the sum of the radii
InitOverlap ==
    /\ InitEntry
    /\ broken = {}
    /\ \E d \in 0..MaxSeparation :
           almanac = [m |-> EventInstant, floor |-> d, fall |-> 1, rise |-> 1]
    /\ approx_when = EventInstant
    /\ web = {PageNoMatch}
    /\ flaky = FALSE
    /\ InitCoordinator

NextOverlap ==
    \/ FirstRefresh
    \/ RefreshStep
    \/ CallCoverage

SpecOverlap == InitOverlap /\ [][NextOverlap]_vars

(***************************************************************************)
(* Properties                                                              *)
(***************************************************************************)
\* C1: the refresh chooses its catalog in a fixed order: a live catalog of at
\* least one event becomes the cache snapshot, stamped now, and is used; with
\* no live event a snapshot of age at most 24 hours is used; else the
\* built-in list is used; and the catalog used is never empty.
TierSelection ==
    [][pc = "tier" =>
          /\ IF parsed # <<>>
             THEN /\ cache_events' = Some(parsed)
                  /\ cache_timestamp' = Some(clock)
                  /\ nasa_events' = parsed
             ELSE IF cache_events # None /\ clock - cache_timestamp[1] <= CacheTtl
             THEN nasa_events' = cache_events[1]
             ELSE nasa_events' = FallbackEvents
          /\ nasa_events' # <<>>]_vars

\* a refresh uses its live catalog although the snapshot of the refresh
\* before is still fresh
LiveOverFreshCache ==
    /\ pc = "select"
    /\ tier = "live"
    /\ prev_tier = "live"
    /\ clock - last_done < CacheTtl

\* C2: a refresh with no live event whose cache check happens when the
\* snapshot is at most 24 hours old uses the snapshot unchanged; one whose
\* check happens later uses the built-in list instead.
TtlBoundary ==
    (pc = "select" /\ parsed = <<>> /\ cache_events # None) =>
        IF clock - cache_timestamp[1] <= CacheTtl
        THEN tier = "cache" /\ nasa_events = cache_events[1]
        ELSE tier = "fallback" /\ nasa_events = FallbackEvents

\* the snapshot is served at the age of exactly 24 hours
ServedAtBoundary ==
    /\ pc = "select"
    /\ tier = "cache"
    /\ clock - cache_timestamp[1] = CacheTtl

\* C3: on the daily schedule, a refresh in which every source fetch fails,
\* after a refresh that served a live catalog, serves the cached snapshot of
\* that refresh and not the built-in list.
DailyFailureServesCache ==
    (pc = "select" /\ prev_tier = "live" /\ missed = NumSources) =>
        (tier = "cache" /\ nasa_events = cache_events[1])

\* C4: only the step that stores a live catalog of at least one event changes
\* the snapshot's events or its capture timestamp; serving the cache or the
\* built-in list leaves both as they are.
CacheKeptUnlessLive ==
    [][(pc = "tier" /\ parsed # <<>>)
          \/ (cache_events' = cache_events /\ cache_timestamp' = cache_timestamp)]_vars

\* a refresh has served the snapshot some time after its capture
ServedAged ==
    /\ pc = "idle"
    /\ outcome = "returned"
    /\ tier = "cache"
    /\ cache_timestamp # None
    /\ cache_timestamp[1] < clock

\* C5: _async_fetch_text makes at most 3 requests for one url, none after a
\* 200 answer, whose body it returns; it returns None only after 3 failed
\* requests; and it never raises.
FetchTextAttempts ==
    /\ requests <= Attempts
    /\ pc \in {"request", "backoff"} => (text = None /\ outcome = "running")
    /\ pc = "request" => requests = attempt
    /\ pc = "backoff" => requests = attempt + 1
    /\ (pc = "fetched" /\ text = None) => requests = Attempts
    /\ (pc = "fetched" /\ text # None) => (requests = attempt + 1 /\ text[1] \in web)

\* the third request has failed and None is returned
GaveUp ==
    /\ pc = "fetched"
    /\ text = None
    /\ requests = Attempts

\* C6: whatever the fetches, the pages, the ephemeris load and the ephemeris
\* give, the refresh returns and never raises to its caller.
RefreshNeverRaises == outcome # "raised"

\* C7: the status signal after a live refresh, after a cached one and after a
\* fallback one are three different values, and each differs from the signal
\* before any data is loaded.
StatusDistinguishes ==
    /\ \A t \in DOMAIN status_seen :
           status_seen[t] # None => status_seen[t][1] # StatusOf(None, None)
    /\ \A t1, t2 \in DOMAIN status_seen :
           (t1 # t2 /\ status_seen[t1] # None /\ status_seen[t2] # None)
               => status_seen[t1] # status_seen[t2]

\* C8: in the parsed catalog no two events share an identifier, each is the
\* earliest-dated of the parsed rows with its identifier, every parsed
\* identifier is kept, and the dates ascend.
CatalogDedupSorted ==
    pc = "tier" =>
        /\ \A i, j \in DOMAIN parsed :
               i # j => parsed[i].identifier # parsed[j].identifier
        /\ \A i \in DOMAIN parsed :
               /\ \E k \in DOMAIN events : events[k] = parsed[i]
               /\ \A k \in DOMAIN events :
                      events[k].identifier = parsed[i].identifier
                          => parsed[i].date <= events[k].date
        /\ \A k \in DOMAIN events :
               \E i \in DOMAIN parsed : parsed[i].identifier = events[k].identifier
        /\ \A i, j \in DOMAIN parsed : i < j => parsed[i].date <= parsed[j].date

\* two sources gave the same identifier, the later one with the earlier
\* date, and the catalog holds two events or more
MergedDuplicate ==
    /\ pc = "tier"
    /\ Len(parsed) >= 2
    /\ \E i, j \in DOMAIN events :
           /\ i < j
           /\ events[i].identifier = events[j].identifier
           /\ events[j].date < events[i].date

\* C9: a table row with a year, a month abbreviation, a day, a type token and
\* a time, with at most 120 characters between the fields, parses to an event
\* with the identifier, the type and the date the fields stand for.
RowRoundTrip ==
    [][\A f \in Fragments :
           (pc = "fetched" /\ text = Some(FragmentPage(f))) =>
               /\ pc' # "idle"
               /\ \E k \in DOMAIN events' :
                      /\ events'[k].identifier = f.identifier
                      /\ events'[k].type = f.type
                      /\ events'[k].date = f.date]_vars

\* C10: whatever a source gives, the loop goes on to the next source, the
\* events of earlier sources stay, the events of the rows of a fetched page
\* are added, and every event collected has its identifier in the catalog.
SourcesIndependent ==
    [][/\ pc = "fetched" =>
              /\ pc' = IF url_idx < NumSources THEN "request" ELSE "dedup"
              /\ url_idx' = IF url_idx < NumSources THEN url_idx + 1 ELSE url_idx
              /\ SubSeq(events', 1, Len(events)) = events
              /\ Truthy(text) =>
                     \A e \in Range(ScansOf(text[1]).rows.events) :
                         e \in Range(events')
       /\ pc = "dedup" =>
              \A e \in Range(events) :
                  \E i \in DOMAIN parsed' :
                      /\ parsed'[i].identifier = e.identifier
                      /\ parsed'[i].date <= e.date]_vars

\* C18: when the separation falls to a whole minute m within 3 hours of the
\* approximate instant and rises after it, async_find_local_maximum returns
\* m, with a coverage above 0 whenever the separation at m is below the sum
\* of the two radii.
LocalMaximumFound ==
    (called = "async_find_local_maximum" /\ result # None) =>
        /\ result[1].dt = almanac.m
        /\ almanac.floor < SunRadius + MoonRadius => result[1].coverage > 0

\* C18, amended: async_find_local_maximum returns m with the coverage at m
\* rounded to one decimal, which is above 0 exactly when the overlap at m is
\* at least 0.05 percent of the Sun's disc.
LocalMaximumRounded ==
    (called = "async_find_local_maximum" /\ result # None) =>
        /\ result[1].dt = almanac.m
        /\ result[1].coverage > 0 <=> Overlap(almanac.floor) >= 500

\* the minimum is three minutes after the approximate instant and the discs
\* overlap there, by less than 0.05 percent
GrazingMaximum ==
    /\ called = "async_find_local_maximum"
    /\ result # None
    /\ almanac.m = approx_when + 180
    /\ result[1].dt = almanac.m
    /\ almanac.floor < SunRadius + MoonRadius
    /\ result[1].coverage = 0

\* C19: while no ephemeris is loaded, every call of the three methods returns
\* None and asks the ephemeris for nothing.
UnavailableWithoutEphemeris ==
    (~install_skyfield \/ ~SKYFIELD_AVAILABLE \/ ephemeris = None) =>
        (result = None /\ ~observed)

\* the ephemeris is wanted and not loaded, and async_find_contact_times was
\* called
CalledWithoutEphemeris ==
    /\ called = "async_find_contact_times"
    /\ install_skyfield
    /\ ephemeris = None
    /\ outcome = "returned"

\* C20: a call of async_find_contact_times returns None exactly when the
\* local maximum is None or has coverage 0, and else a start and an end with
\* the instant of the local maximum between them.
ContactTimesBracket ==
    [][(called' = "async_find_contact_times" /\ pc = "idle" /\ pc' = "idle") =>
          LET local == FindLocalMaximum(
                           install_skyfield /\ SKYFIELD_AVAILABLE /\ ephemeris # None,
                           almanac, approx_when)
          IN  /\ result' = None <=> (local = None \/ local[1].coverage = 0)
              /\ result' # None =>
                     /\ result'[1].start <= local[1].dt
                     /\ local[1].dt <= result'[1].end]_vars

\* contact times were found, the first before the last
ContactTimesFound ==
    /\ called = "async_find_contact_times"
    /\ result # None
    /\ result[1].start < result[1].end


\* C11: with the ephemeris loaded, the refresh returns the first num_events
\* of the future events whose local-maximum coverage is positive, or all of
\* them when they are fewer, in date order; never more than num_events, which
\* is between 1 and 10, and never an event of coverage 0 or one the ephemeris
\* raised for
FirstVisibleSelected ==
    (pc = "idle" /\ outcome = "returned" /\ tier = "live" /\ refreshes = 1
        /\ install_skyfield /\ SKYFIELD_AVAILABLE /\ ephemeris # None) =>
        LET upcoming == FutureOf(nasa_events, clock)
            covered  == SelectSeq(upcoming, LAMBDA e : LocalMaxCov(e) > 0)
        IN  /\ data # None
            /\ data[1] = Take(covered, num_events)
            /\ num_events \in 1..10
            /\ Len(data[1]) <= num_events
            /\ \A i \in 1..Len(data[1]) :
                   /\ data[1][i].identifier \in sky
                   /\ data[1][i].identifier \notin broken
            /\ \A i \in 1..(Len(data[1]) - 1) : data[1][i].date < data[1][i + 1].date

\* C11 witness: a refresh returned num_events events from several batches and
\* passed over an eclipse seen from the place because the ephemeris raised
SelectedPastFailure ==
    /\ pc = "idle" /\ outcome = "returned" /\ data # None
    /\ Len(data[1]) = num_events
    /\ start_idx > BatchSize
    /\ \E i \in 1..Len(future) :
           /\ future[i].identifier \in sky \cap broken
           /\ future[i].date < data[1][Len(data[1])].date

\* C12: an evaluation starts only in the batch at start_idx, in the order of
\* the batch, after every evaluation of the batches before has ended and
\* their events of positive coverage are in visible, and only while visible
\* has fewer than num_events events
BatchBarrier ==
    [][started' # started =>
          /\ pc = "gather"
          /\ started' = 1..(start_idx + acquired + 1)
          /\ acquired < BatchSize
          /\ start_idx % BatchSize = 0
          /\ holding \subseteq 1..acquired
          /\ \A i \in 1..start_idx : i \in started
          /\ visible = SelectSeq(SubSeq(future, 1, start_idx),
                                 LAMBDA e : LocalMaxCov(e) > 0)
          /\ Len(visible) < num_events]_vars

\* C12 witness: a refresh returned from its second batch and left the events
\* of the third without an evaluation
LaterBatchSkipped ==
    /\ pc = "idle" /\ outcome = "returned"
    /\ start_idx = BatchSize
    /\ Len(future) > start_idx + BatchSize
    /\ started = 1..(start_idx + BatchSize)

\* C13: at most three evaluations are inside the semaphore, each of them holds
\* one of its three permits, and all three are free again whenever every
\* evaluation of a batch has ended
GateBounded ==
    /\ Cardinality(holding) <= 3
    /\ permits + Cardinality(holding) = 3
    /\ pc # "gather" => permits = 3 /\ holding = {}
    /\ (pc = "gather" /\ \A i \in 1..Len(coverages) : coverages[i] # None) =>
           permits = 3

\* C13 witness: three evaluations are inside the semaphore in a batch that
\* follows one in which the ephemeris raised for every event
GateFullAfterFailures ==
    /\ pc = "gather"
    /\ start_idx = BatchSize
    /\ \A i \in 1..start_idx : future[i].identifier \in broken
    /\ Cardinality(holding) = 3

\* C14 (the claim as stated, for the regional lookup): an event one of whose
\* fetches failed during its lookup does not pass the regional filter
FailedLookupNotVisible ==
    \A i \in DOMAIN vis_flags : answers[i] => ~vis_flags[i]

\* C16: _async_visible_in_region always returns a flag; the flag is true when
\* the region is Global, when the index page is unavailable, when the region
\* has no label, when the index holds no link with the label and when the
\* region page is unavailable; it is false only when the region page was
\* fetched and the date of the event is not on it
RegionResolverLenient ==
    [][vis_flags' # vis_flags =>
          LET ok     == vis_flags'[Len(vis_flags')]
              id     == future[lookup].identifier
              listed == /\ region_text = Some(RegionPageListing)
                        /\ id \in {FormatIdentifier(2026, 2, 17),
                                   FormatIdentifier(2027, 8, 2)}
          IN  /\ vis_flags' = Append(vis_flags, ok)
              /\ lookup' = lookup + 1
              /\ region = "Global" => ok
              /\ (pc = "index" /\ index_text \in {None, Some(<<>>)}) => ok
              /\ region \notin {"Europe", "Africa", "Asia", "North America",
                                "South America", "Oceania"} => ok
              /\ index_text = Some(IndexPlain) => ok
              /\ (pc = "dates" /\ region_text \in {None, Some(<<>>)}) => ok
              /\ ~ok => /\ pc = "dates"
                        /\ region_text \in {Some(RegionPageListing),
                                            Some(RegionPageOther),
                                            Some(RegionPageNear)}
                        /\ ~listed]_vars

\* C16 witness: of the lookups of one refresh, one returned false and one
\* returned true after a fetch that failed
LenientAndStrictLookups ==
    \E i, j \in DOMAIN vis_flags :
        /\ ~vis_flags[i]
        /\ vis_flags[j] /\ answers[j]

\* C17: without the ephemeris the refresh returns the first num_events of the
\* future events whose flag is true when there is one, the first num_events
\* future events when there is none, and nothing only without a future event
RegionBranchResult ==
    (pc = "idle" /\ outcome = "returned"
        /\ ~(install_skyfield /\ SKYFIELD_AVAILABLE /\ ephemeris # None)) =>
        LET upcoming == FutureOf(nasa_events, clock)
            passing  == {i \in DOMAIN vis_flags : vis_flags[i]}
            wanted   == IF num_events < Cardinality(passing)
                        THEN num_events ELSE Cardinality(passing)
        IN  /\ data # None
            /\ future = upcoming
            /\ (data[1] = <<>>) <=> (upcoming = <<>>)
            /\ upcoming # <<>> => Len(vis_flags) = Len(upcoming)
            /\ passing = {} => data[1] = Take(upcoming, num_events)
            /\ passing # {} =>
                   /\ Len(data[1]) = wanted
                   /\ \A k \in 1..wanted :
                          \E i \in passing :
                              /\ Cardinality({j \in passing : j <= i}) = k
                              /\ data[1][k] = upcoming[i]

\* C17 witness: no event passed the filter of a region, and the refresh
\* returned the first future events
UnfilteredFallback ==
    /\ pc = "idle" /\ outcome = "returned"
    /\ region # "Global"
    /\ vis_flags # <<>>
    /\ \A i \in DOMAIN vis_flags : ~vis_flags[i]
    /\ data = Some(Take(future, num_events))
    /\ Len(future) > num_events

\* C15: the events a refresh returns are in ascending order of date, whatever
\* the catalog and the branch, and they are events of the catalog in the
\* order of the catalog
ReturnedAscending ==
    /\ data # None =>
           \A i \in 1..(Len(data[1]) - 1) : data[1][i].date <= data[1][i + 1].date
    /\ (pc = "idle" /\ outcome = "returned") =>
           data[1] = SelectSeq(nasa_events,
                               LAMBDA e : \E i \in DOMAIN data[1] : data[1][i] = e)

\* C15 witness: a refresh returned two events or more from the cached catalog
SeveralFromCache ==
    /\ pc = "idle" /\ outcome = "returned"
    /\ tier = "cache"
    /\ Len(data[1]) >= 2
    /\ data[1][1].date < data[1][2].date

\* C21: whenever async_find_contact_times returns a start and an end, the
\* overlap exceeds 0.1 percent at the start, at the end and at every sample,
\* two minutes apart, between them
ContactSamplesCovered ==
    (called = "async_find_contact_times" /\ result # None) =>
        \A k \in 0..((result[1].end - result[1].start) \div ContactStep) :
            Overlap(Separation(almanac, result[1].start + k * ContactStep)) > 1000

\* C23: the coverage async_calculate_coverage_percent returns for a
\* separation d lies between 0 and 100, is 0 for d >= R + r, is
\* 100 * min(R, r)^2 / R^2 for d <= |R - r|, and does not grow with d
OverlapContract ==
    (called = "async_calculate_coverage_percent" /\ result # None) =>
        LET d     == almanac.floor
            c     == result[1]
            least == IF SunRadius < MoonRadius THEN SunRadius ELSE MoonRadius
            gap   == IF SunRadius < MoonRadius THEN MoonRadius - SunRadius
                     ELSE SunRadius - MoonRadius
        IN  /\ c >= 0 /\ c <= 1000
            /\ d >= SunRadius + MoonRadius => c = 0
            /\ d <= gap => c * SunRadius * SunRadius = 1000 * least * least
            /\ \A e \in d..MaxSeparation : c >= RoundTenths(Overlap(e))

\* C26: _async_fetch_text waits 1 second after the first failed attempt and 2
\* seconds after the second, and not at all after the third or after an
\* attempt that succeeded; an attempt starts only after the wait that follows
\* the attempt before it
BackoffTiming ==
    [][/\ pc = "backoff" =>
              /\ attempt \in {0, 1}
              /\ clock' = clock + (IF attempt = 0 THEN 1 ELSE 2)
              /\ attempt' = attempt + 1
              /\ pc' = "request"
       /\ requests' = requests + 1 =>
              /\ pc = "request"
              /\ requests = attempt
              /\ clock' = clock
              /\ pc' = IF text' = None /\ attempt < 2 THEN "backoff" ELSE "fetched"
       /\ pc = "fetched" => clock' = clock]_vars

\* C26 witness: the third attempt for the first url starts 3 seconds after the
\* first one
ThirdAttemptAfterWaits ==
    /\ pc = "request"
    /\ url_idx = 1
    /\ attempt = 2
    /\ requests = 2
    /\ clock = last_done + 3

\* C27: the cached list and its timestamp are both absent or both present; a
\* present list is not empty, holds no identifier twice and is in date order;
\* the two change only together, when a refresh has fetched and parsed a
\* catalog that is not empty, and become that catalog and the instant of the
\* refresh; every such refresh replaces them
CacheSnapshotWhole ==
    [][/\ cache_events' = None <=> cache_timestamp' = None
       /\ cache_events' # None =>
              /\ cache_events'[1] # <<>>
              /\ \A i, j \in DOMAIN cache_events'[1] :
                     i < j => /\ cache_events'[1][i].identifier #
                                     cache_events'[1][j].identifier
                              /\ cache_events'[1][i].date <= cache_events'[1][j].date
       /\ (cache_events' # cache_events \/ cache_timestamp' # cache_timestamp) =>
              /\ pc = "tier"
              /\ parsed # <<>>
       /\ (pc = "tier" /\ parsed # <<>>) =>
              /\ cache_events' = Some(parsed)
              /\ cache_timestamp' = Some(clock')]_vars

\* C27 witness: a second refresh has replaced the snapshot of the first
SnapshotReplaced ==
    /\ pc = "select"
    /\ refreshes = 2
    /\ tier = "live"
    /\ prev_tier = "live"
    /\ cache_events = Some(parsed)
    /\ cache_timestamp = Some(clock)
    /\ clock > last_done

\* C28: the ephemeris changes only in _async_setup_skyfield of a coordinator
\* that wants it, and only from absent to loaded; the step never raises, and
\* a refresh that reaches the selection without the ephemeris returns the
\* result of the region branch, for Global the first num_events future events
EphemerisOneWay ==
    [][/\ ephemeris # None => ephemeris' = ephemeris
       /\ ephemeris' # ephemeris =>
              /\ pc = "setup"
              /\ install_skyfield /\ SKYFIELD_AVAILABLE
       /\ pc = "setup" => (pc' = "request" /\ outcome' = "running")
       /\ (pc = "select" /\ ephemeris = None) =>
              /\ outcome' = "returned"
              /\ region = "Global" =>
                     data' = Some(Take(FutureOf(nasa_events, clock), num_events))]_vars

\* C28 witness: the load failed in the first refresh, which returned an event
\* that is not seen from the place, and succeeded in the second
LoadedOnSecondRefresh ==
    /\ refreshes = 2
    /\ pc = "request"
    /\ ephemeris # None
    /\ data # None
    /\ \E i \in DOMAIN data[1] : data[1][i].identifier \notin sky

\* C29: when the region page has been fetched, the flag of the lookup is true
\* exactly for an event whose own date the page lists
DateFilterExact ==
    [][(vis_flags' # vis_flags /\ pc = "dates"
            /\ region_text \notin {None, Some(<<>>)}) =>
          LET id == future[lookup].identifier
          IN  vis_flags'[Len(vis_flags')] <=>
                  /\ region_text = Some(RegionPageListing)
                  /\ id \in {FormatIdentifier(2026, 2, 17),
                             FormatIdentifier(2027, 8, 2)}]_vars

\* C30: the index and the region pages are requested only without the
\* ephemeris and for a supported region other than Global; a lookup for
\* Global returns true with no request, the refresh then returns the first
\* num_events future events, and a refresh with the ephemeris makes no lookup
ResolverOnlyWhenNeeded ==
    [][/\ pc' \in {"index", "page", "dates"} =>
              /\ ~(install_skyfield /\ SKYFIELD_AVAILABLE /\ ephemeris # None)
              /\ region \in SUPPORTED_REGIONS \ {"Global"}
       /\ (vis_flags' # vis_flags /\ region = "Global") =>
              /\ pc = "lookup"
              /\ index_text = None /\ region_text = None /\ url = None
              /\ vis_flags' = Append(vis_flags, TRUE)
       /\ (pc = "lookup" /\ pc' = "idle" /\ region = "Global") =>
              data' = Some(Take(FutureOf(nasa_events, clock), num_events))
       /\ (pc = "select"
              /\ install_skyfield /\ SKYFIELD_AVAILABLE /\ ephemeris # None) =>
              /\ pc' = "idle"
              /\ UNCHANGED <<lookup, index_text, url, region_text, vis_flags>>]_vars

\* C30 witness: a refresh without the ephemeris and for Global has returned
\* every future event, each after a lookup without a request
GlobalPassesAll ==
    /\ pc = "idle" /\ outcome = "returned"
    /\ region = "Global"
    /\ ephemeris = None
    /\ Len(vis_flags) >= 2
    /\ \A i \in DOMAIN vis_flags : vis_flags[i] /\ ~answers[i]
    /\ data = Some(future)

\* C22: when the ephemeris raises in a recompute of the entity, the recompute
\* does not end by the exception, and the cached coverage, local maximum and
\* contact times are unknown afterwards
RecomputeFaultContained ==
    faulted => (recomputed # "raised" /\ cached_values = Unknown)

\* C24: every local-maximum search is entered by a caller that holds one of
\* the permits: the evaluations of a batch in progress account for the
\* permits taken, and the searches of a recompute of the entity are entered
\* with a permit taken
SearchesInsideGate ==
    /\ Cardinality(holding) <= Permits - permits
    /\ \A i \in DOMAIN searches : searches[i].permits < Permits

\* C25: when the listener has run after a refresh with the ephemeris loaded
\* and the ephemeris has not raised, the cached attributes are the ones
\* computed for the event now at index 0, or unknown when there is none
RecomputedOnRefresh ==
    [][(/\ handled' # handled
        /\ EphemerisReady(install_skyfield, SKYFIELD_AVAILABLE, ephemeris)
        /\ ~faulted') =>
           cached_values' = IF EventOf(data) = None THEN Unknown
                     ELSE Computed(TRUE, almanac, EventOf(data)[1])]_vars

\* C31: a page that is fetched and whose rows give no event has its whole
\* text scanned, and every match is appended to the events, whatever the
\* pages before it gave
WholePageScanned ==
    [][(/\ pc = "fetched"
        /\ Truthy(text)
        /\ ~ScansOf(text[1]).rows.raised
        /\ ScansOf(text[1]).rows.events = <<>>
        /\ ~ScansOf(text[1]).whole.raised
        /\ pc' # pc) =>
           events' = events \o ScansOf(text[1]).whole.events]_vars

\* C32: the start and the end async_find_contact_times returns lie fewer than
\* 120 steps of two minutes before and after the local maximum, so less than
\* 4 hours from it, and the duration is a multiple of two minutes from 0 to
\* below 480 minutes
ContactSearchBounded ==
    (called = "async_find_contact_times" /\ result # None) =>
        LET max_time == FindLocalMaximum(TRUE, almanac, approx_when)[1].dt
            span     == result[1].end - result[1].start
        IN  /\ \E k \in 0..(ContactLimit \div ContactStep - 1) :
                   result[1].start = max_time - k * ContactStep
            /\ \E k \in 0..(ContactLimit \div ContactStep - 1) :
                   result[1].end = max_time + k * ContactStep
            /\ max_time - result[1].start < ContactLimit
            /\ result[1].end - max_time < ContactLimit
            /\ span >= 0
            /\ span % ContactStep = 0
            /\ span < 2 * ContactLimit

\* C32 witness: the occlusion stays above the threshold for the whole of the
\* backward search, which ends at its limit, and the forward search ends
\* where the occlusion has fallen
SearchEndedAtLimit ==
    /\ called = "async_find_contact_times"
    /\ result # None
    /\ LET max_time == FindLocalMaximum(TRUE, almanac, approx_when)[1].dt
       IN  /\ result[1].start = max_time - (ContactLimit - ContactStep)
           /\ Covered(almanac, max_time - (ContactLimit - ContactStep))
           /\ Covered(almanac, max_time - ContactLimit)
           /\ result[1].end < max_time + (ContactLimit - ContactStep)

\* one refresh whose steps are taken as long as one is enabled: every
\* request completes and the event loop runs the refresh on
FairFetch == InitFetch /\ [][NextFetch]_vars /\ WF_vars(RefreshStep)

\* C33: every refresh that has started reaches a return, with at most 3
\* requests for the url it is at
RefreshReturns ==
    /\ [](requests <= Attempts)
    /\ (outcome = "running") ~> (outcome = "returned")

\* C34: the instant async_find_local_maximum returns is approx_when or an
\* instant of the coarse grid or of the refine grid around the coarse
\* minimum, lies within 3 hours 10 minutes of approx_when, and its separation
\* is no greater than the one at approx_when and at every instant of the two
\* grids
LocalMaximumSampled ==
    (called = "async_find_local_maximum" /\ result # None) =>
        LET coarse_pts == ScanPoints(approx_when - Window, Step, NumPoints(Window, Step))
            coarse_sep == MinOf({Separation(almanac, dt) : dt \in coarse_pts \cup {approx_when}})
            coarse_dt  == IF Separation(almanac, approx_when) = coarse_sep THEN approx_when
                          ELSE MinOf({dt \in coarse_pts : Separation(almanac, dt) = coarse_sep})
            refine_pts == ScanPoints(coarse_dt - RefineWindow, RefineStep,
                                     NumPoints(RefineWindow, RefineStep))
            best_dt    == result[1].dt
        IN  /\ best_dt \in {approx_when} \cup coarse_pts \cup refine_pts
            /\ best_dt - approx_when <= Window + RefineWindow
            /\ approx_when - best_dt <= Window + RefineWindow
            /\ \A dt \in {approx_when} \cup coarse_pts \cup refine_pts :
                   Separation(almanac, best_dt) <= Separation(almanac, dt)

\* C34 witness: the search returned an instant of the refine grid that is
\* not on the coarse grid, with a separation below the one at approx_when
\* and below the one at every instant of the coarse grid
RefinedOffGrid ==
    /\ called = "async_find_local_maximum"
    /\ result # None
    /\ result[1].dt # approx_when
    /\ (result[1].dt - approx_when) % Step # 0
    /\ \A dt \in ScanPoints(approx_when - Window, Step, NumPoints(Window, Step)) \cup {approx_when} :
           Separation(almanac, result[1].dt) < Separation(almanac, dt)

\* C35: every event a refresh has returned has a date after the instant at
\* which the refresh filtered the catalog, whichever tier gave the catalog
ReturnedInFuture ==
    (pc = "idle" /\ outcome = "returned") =>
        \A i \in DOMAIN data[1] : data[1][i].date > last_done

\* C35 witness: a refresh served the cached snapshot, which holds an event
\* whose date has passed, and returned events without it
PassedEventDropped ==
    /\ pc = "idle" /\ outcome = "returned"
    /\ tier = "cache"
    /\ \E i \in DOMAIN nasa_events : nasa_events[i].date <= last_done
    /\ data[1] # <<>>
    /\ \A i \in DOMAIN data[1] : data[1][i].date > last_done

\* C36: whenever an event is at the index of the entity, its attributes hold
\* maximum_time: the time of the local maximum when one has been computed,
\* else the time of the date of the event
MaximumTimePresent ==
    EventOf(data) # None =>
        MaximumTime(data, install_skyfield, SKYFIELD_AVAILABLE,
                    cached_values.local_max_time)
            = IF cached_values.local_max_time # None
              THEN FmtTime(cached_values.local_max_time)
              ELSE FmtTime(Some(EventOf(data)[1].date))

\* C37: once a refresh has returned, the binary sensor is on exactly when
\* the data of the coordinator holds an event from now to seven days from now
ThisWeekFollowsData ==
    (platform # "none" /\ pc = "idle" /\ outcome = "returned") =>
        (is_on = Some(TRUE) <=> WithinWeek(data, clock))

=============================================================================
